---------------------------- MODULE CodecProofs ----------------------------
(***************************************************************************)
(* Proofs about the packet layer.  What is written is read again, for every*)
(* width of a byte's group and of a word; no byte gets lost between the    *)
(* peer and the packets; and the layer implements the packet stream.       *)
(*                                                                         *)
(* Groups and Unsigned are recursive functions: that they are well defined *)
(* rests on Recursion, a statement about sets and functions only.          *)
(***************************************************************************)
EXTENDS Codec, WellFoundedInduction, SequenceTheorems, TLAPS

-----------------------------------------------------------------------------
(* Recursion.  A function that goes back from each argument to one of lower*)
(* rank is well defined.                                                   *)

LEMMA LeastElement ==
  ASSUME NEW S, S \subseteq Nat, S # {}
  PROVE  \E m \in S : \A n \in S : m <= n
<1>1. PICK m \in S : \A n \in S : <<n, m>> \notin OpToRel(<, Nat)
  BY NatLessThanWellFounded, WFMin
<1>2. ASSUME NEW n \in S, n < m PROVE FALSE
  <2>1. <<n, m>> \in OpToRel(<, Nat)
    BY <1>2 DEF OpToRel
  <2> QED
    BY <1>1, <2>1
<1> QED
  BY <1>2

LEMMA Induction ==
  ASSUME NEW S, 0 \in S, \A n \in Nat : n \in S => n + 1 \in S
  PROVE  Nat \subseteq S
<1> SUFFICES ASSUME Nat \ S # {} PROVE FALSE
  OBVIOUS
<1>1. PICK m \in Nat \ S : \A n \in Nat \ S : m <= n
  <2>1. (Nat \ S) \subseteq Nat
    OBVIOUS
  <2> QED
    BY <2>1, LeastElement
<1>2. m # 0 /\ m - 1 \in Nat
  BY <1>1
<1>3. m - 1 \in S
  BY <1>1, <1>2
<1> QED
  BY <1>1, <1>2, <1>3

Descends(D, R, rank, prev, Z, base, step) ==
    /\ rank \in [D -> Nat] /\ prev \in [D -> D]
    /\ base \in [D -> R] /\ step \in [D -> [R -> R]]
    /\ \A x \in D : x \notin Z => rank[prev[x]] < rank[x]

Recursive(f, D, prev, Z, base, step) ==
    \A x \in D : f[x] = IF x \in Z THEN base[x] ELSE step[x][f[prev[x]]]

LEMMA Recursion ==
  ASSUME NEW D, NEW R, NEW rank, NEW prev, NEW Z, NEW base, NEW step,
         Descends(D, R, rank, prev, Z, base, step)
  PROVE  \E f \in [D -> R] : Recursive(f, D, prev, Z, base, step)
<1>0. /\ rank \in [D -> Nat] /\ prev \in [D -> D]
      /\ base \in [D -> R] /\ step \in [D -> [R -> R]]
      /\ \A x \in D : x \notin Z => rank[prev[x]] < rank[x]
  BY DEF Descends
<1> USE <1>0
<1> DEFINE Right(f, x) == f[x] = IF x \in Z THEN base[x] ELSE step[x][f[prev[x]]]
           Below(n) == {f \in [D -> R] : \A x \in D : rank[x] < n => Right(f, x)}
<1>1. \A n \in Nat : Below(n) # {}
  <2> DEFINE S == {n \in Nat : Below(n) # {}}
  <2>1. 0 \in S
    <3>1. base \in Below(0)
      OBVIOUS
    <3> QED
      BY <3>1
  <2>2. ASSUME NEW n \in Nat, n \in S PROVE n + 1 \in S
    <3>1. PICK f \in Below(n) : TRUE
      BY <2>2
    <3> DEFINE g == [x \in D |-> IF x \in Z THEN base[x] ELSE step[x][f[prev[x]]]]
    <3>2. g \in [D -> R]
      BY <3>1
    <3>3. ASSUME NEW x \in D, rank[x] < n + 1 PROVE Right(g, x)
      <4>1. CASE x \in Z
        BY <4>1
      <4>2. CASE x \notin Z
        <5>1. prev[x] \in D /\ rank[prev[x]] < n
          BY <3>3, <4>2
        <5>2. Right(f, prev[x])
          BY <3>1, <5>1
        <5>3. g[prev[x]] = f[prev[x]]
          BY <5>1, <5>2
        <5> QED
          BY <4>2, <5>3
      <4> QED
        BY <4>1, <4>2
    <3>4. g \in Below(n + 1)
      <4> HIDE DEF g
      <4> QED
        BY <3>2, <3>3
    <3> HIDE DEF Below, g
    <3> QED
      BY <3>4
  <2>3. Nat \subseteq S
    <3> HIDE DEF S
    <3> QED
      BY <2>1, <2>2, Induction
  <2> QED
    BY <2>3
<1>2. ASSUME NEW n \in Nat, NEW m \in Nat, NEW f \in Below(n), NEW g \in Below(m),
             NEW y \in D, rank[y] < n, rank[y] < m
      PROVE  f[y] = g[y]
  <2> DEFINE apart == {x \in D : rank[x] < n /\ rank[x] < m /\ f[x] # g[x]}
             T == {rank[x] : x \in apart}
  <2> SUFFICES ASSUME f[y] # g[y] PROVE FALSE
    OBVIOUS
  <2>1. T \subseteq Nat /\ T # {}
    <3>1. y \in apart
      BY <1>2
    <3>2. \A x \in apart : rank[x] \in Nat
      OBVIOUS
    <3> HIDE DEF apart
    <3> QED
      BY <3>1, <3>2
  <2>2. PICK r \in T : \A other \in T : r <= other
    <3> HIDE DEF T
    <3> QED
      BY <2>1, LeastElement
  <2>3. PICK x \in D : rank[x] = r /\ rank[x] < n /\ rank[x] < m /\ f[x] # g[x]
    BY <2>2
  <2>4. Right(f, x) /\ Right(g, x)
    BY <2>3
  <2>5. x \notin Z
    BY <2>3, <2>4
  <2>6. prev[x] \in D /\ rank[prev[x]] < r /\ rank[prev[x]] \in Nat
    BY <2>3, <2>5
  <2>7. rank[prev[x]] < n /\ rank[prev[x]] < m
    BY <2>3, <2>6
  <2>8. f[prev[x]] = g[prev[x]]
    <3> SUFFICES ASSUME f[prev[x]] # g[prev[x]] PROVE FALSE
      OBVIOUS
    <3>1. rank[prev[x]] \in T
      BY <2>6, <2>7
    <3>2. r <= rank[prev[x]] /\ r \in Nat
      BY <2>1, <2>2, <3>1
    <3> QED
      BY <2>6, <3>2
  <2> QED
    BY <2>3, <2>4, <2>5, <2>8
<1> DEFINE choice == [n \in Nat |-> CHOOSE f \in Below(n) : TRUE]
<1>3. \A n \in Nat : choice[n] \in Below(n)
  <2> HIDE DEF Below
  <2> QED
    BY <1>1
<1> DEFINE h == [x \in D |-> choice[rank[x] + 1][x]]
<1> HIDE DEF choice
<1>4. h \in [D -> R]
  BY <1>3
<1>5. ASSUME NEW x \in D PROVE Right(h, x)
  <2> DEFINE n == rank[x] + 1
             f == choice[n]
  <2>1. n \in Nat /\ f \in Below(n) /\ rank[x] < n
    BY <1>3
  <2>2. Right(f, x) /\ h[x] = f[x]
    BY <2>1
  <2>3. CASE x \in Z
    BY <2>2, <2>3
  <2>4. CASE x \notin Z
    <3> DEFINE m == rank[prev[x]] + 1
    <3>1. prev[x] \in D /\ m \in Nat /\ rank[prev[x]] < m /\ rank[prev[x]] < n /\ choice[m] \in Below(m)
      BY <1>3, <2>4
    <3>2. h[prev[x]] = choice[m][prev[x]]
      BY <3>1
    <3>3. choice[m][prev[x]] = f[prev[x]]
      <4> HIDE DEF m, n, f, Below
      <4> QED
        BY <1>2, <2>1, <3>1
    <3> QED
      BY <2>2, <2>4, <3>2, <3>3
  <2> QED
    BY <2>3, <2>4
<1> HIDE DEF h
<1> QED
  BY <1>4, <1>5 DEF Recursive

-----------------------------------------------------------------------------
(* VarInts.                                                                *)

LEMMA Constants ==
  /\ Base \in Nat \ {0} /\ Base > 1 /\ 0 \in 0 .. (Base - 1)
  /\ Modulus \in Nat \ {0} /\ Modulus % 2 = 0 /\ MaxVarIntBytes \in Nat
  /\ MaxFrameLength \in 0 .. (Modulus \div 2 - 1) /\ MaxSent \in Nat
BY CodecAssumption DEF CodecAssumption

LEMMA DivMod ==
  ASSUME NEW v \in Nat, NEW n \in Nat \ {0}
  PROVE  /\ v % n \in 0 .. (n - 1) /\ v \div n \in Nat
         /\ v = n * (v \div n) + (v % n)
OBVIOUS

LEMMA OwnRemainder ==
  ASSUME NEW n \in Nat \ {0}, NEW v \in Nat, v < n
  PROVE  v % n = v
OBVIOUS

LEMMA SmallerFactor ==
  ASSUME NEW b \in Nat, b > 1, NEW q \in Nat \ {0}
  PROVE  b * q \in Nat /\ q < b * q
<1>1. b * q = q + (b - 1) * q /\ (b - 1) * q \in Nat
  OBVIOUS
<1>2. (b - 1) * q > 0
  OBVIOUS
<1> QED
  BY <1>1, <1>2

LEMMA SmallerQuotient ==
  ASSUME NEW v \in Nat, v >= Base
  PROVE  v \div Base \in Nat /\ v \div Base < v
<1> DEFINE q == v \div Base
<1>1. v = Base * q + (v % Base) /\ q \in Nat /\ v % Base \in Nat
  BY Constants, DivMod
<1> HIDE DEF q
<1>2. CASE q = 0
  BY <1>1, <1>2, Constants
<1>3. CASE q # 0
  <2>1. Base * q \in Nat /\ q < Base * q
    BY <1>1, <1>3, Constants, SmallerFactor
  <2> QED
    BY <1>1, <2>1 DEF q
<1> QED
  BY <1>2, <1>3 DEF q

LEMMA OneByte ==
  ASSUME NEW byte \in Byte, NEW bytes \in Seq(Byte)
  PROVE  /\ <<byte>> \o bytes \in Seq(Byte) /\ <<byte>> \o bytes # <<>>
         /\ <<byte>> \in Seq(Byte)
         /\ Len(<<byte>> \o bytes) = Len(bytes) + 1
         /\ Head(<<byte>> \o bytes) = byte /\ Tail(<<byte>> \o bytes) = bytes
         /\ (<<byte>> \o bytes)[1] = byte
         /\ \A i \in 1 .. Len(bytes) : (<<byte>> \o bytes)[i + 1] = bytes[i]
OBVIOUS

LEMMA GroupsDefined ==
  /\ Groups \in [Nat -> Seq(Byte)]
  /\ \A v \in Nat : Groups[v] =
        IF v < Base THEN <<[more |-> FALSE, bits |-> v]>>
        ELSE <<[more |-> TRUE, bits |-> v % Base]>> \o Groups[v \div Base]
<1> DEFINE rank == [v \in Nat |-> v]
           prev == [v \in Nat |-> v \div Base]
           base == [v \in Nat |-> <<[more |-> FALSE, bits |-> v % Base]>>]
           step == [v \in Nat |-> [rest \in Seq(Byte) |-> <<[more |-> TRUE, bits |-> v % Base]>> \o rest]]
           Z == 0 .. (Base - 1)
<1>1. \A v \in Nat : v % Base \in 0 .. (Base - 1) /\ v \div Base \in Nat
  <2> TAKE v \in Nat
  <2> QED
    BY Constants, DivMod
<1>2. rank \in [Nat -> Nat] /\ prev \in [Nat -> Nat]
  BY <1>1
<1>3. base \in [Nat -> Seq(Byte)]
  <2>1. \A v \in Nat : [more |-> FALSE, bits |-> v % Base] \in Byte
    BY <1>1 DEF Byte
  <2>2. <<>> \in Seq(Byte)
    OBVIOUS
  <2>3. \A v \in Nat : <<[more |-> FALSE, bits |-> v % Base]>> \in Seq(Byte)
    BY <2>1, <2>2, OneByte
  <2> QED
    BY <2>3
<1>4. step \in [Nat -> [Seq(Byte) -> Seq(Byte)]]
  <2> SUFFICES ASSUME NEW v \in Nat, NEW rest \in Seq(Byte)
               PROVE  <<[more |-> TRUE, bits |-> v % Base]>> \o rest \in Seq(Byte)
    OBVIOUS
  <2>1. [more |-> TRUE, bits |-> v % Base] \in Byte
    BY <1>1 DEF Byte
  <2> QED
    BY <2>1, OneByte
<1>5. \A v \in Nat : v \notin Z => rank[prev[v]] < rank[v]
  <2> SUFFICES ASSUME NEW v \in Nat, v \notin Z PROVE rank[prev[v]] < rank[v]
    OBVIOUS
  <2>1. v >= Base
    BY Constants
  <2> QED
    BY <1>1, <2>1, SmallerQuotient
<1>a. PICK f \in [Nat -> Seq(Byte)] : Recursive(f, Nat, prev, Z, base, step)
  <2> HIDE DEF rank, prev, base, step, Z
  <2>1. Descends(Nat, Seq(Byte), rank, prev, Z, base, step)
    BY <1>2, <1>3, <1>4, <1>5 DEF Descends
  <2> QED
    BY <2>1, Recursion
<1>6. \A v \in Nat : f[v] = IF v \in Z THEN base[v] ELSE step[v][f[prev[v]]]
  <2> HIDE DEF rank, prev, base, step, Z
  <2> QED
    BY <1>a DEF Recursive
<1>7. \A v \in Nat : f[v] =
        IF v < Base THEN <<[more |-> FALSE, bits |-> v]>>
        ELSE <<[more |-> TRUE, bits |-> v % Base]>> \o f[v \div Base]
  <2> SUFFICES ASSUME NEW v \in Nat
               PROVE  f[v] = IF v < Base THEN <<[more |-> FALSE, bits |-> v]>>
                             ELSE <<[more |-> TRUE, bits |-> v % Base]>> \o f[v \div Base]
    OBVIOUS
  <2>1. CASE v < Base
    <3>0. v \in Z
      BY <2>1, Constants
    <3>1. f[v] = base[v]
      <4> HIDE DEF Z, base, step, prev
      <4> QED
        BY <1>6, <3>0
    <3>2. v % Base = v
      BY <2>1, Constants
    <3> QED
      BY <2>1, <3>1, <3>2
  <2>2. CASE ~(v < Base)
    <3>0. v \notin Z
      BY <2>2, Constants
    <3>1. f[v] = step[v][f[prev[v]]]
      <4> HIDE DEF Z, base, step, prev
      <4> QED
        BY <1>6, <3>0
    <3>2. prev[v] = v \div Base /\ f[v \div Base] \in Seq(Byte)
      BY <1>1, <1>a
    <3> QED
      BY <2>2, <3>1, <3>2
  <2> QED
    BY <2>1, <2>2
<1>8. f = [v \in Nat |->
        IF v < Base THEN <<[more |-> FALSE, bits |-> v]>>
        ELSE <<[more |-> TRUE, bits |-> v % Base]>> \o f[v \div Base]]
  BY <1>a, <1>7
<1>9. Groups = [v \in Nat |->
        IF v < Base THEN <<[more |-> FALSE, bits |-> v]>>
        ELSE <<[more |-> TRUE, bits |-> v % Base]>> \o Groups[v \div Base]]
  BY <1>8, Zenon DEF Groups
<1>10. \A v \in Nat : Groups[v] =
        IF v < Base THEN <<[more |-> FALSE, bits |-> v]>>
        ELSE <<[more |-> TRUE, bits |-> v % Base]>> \o Groups[v \div Base]
  BY <1>9, Zenon
<1> DEFINE odd == {v \in Nat : Groups[v] \notin Seq(Byte)}
<1>11. ASSUME odd # {} PROVE FALSE
  <2>1. PICK v \in odd : \A other \in odd : v <= other
    BY <1>11, LeastElement
  <2>0. v \in Nat /\ Groups[v] \notin Seq(Byte)
    BY <2>1
  <2> HIDE DEF rank, prev, base, step, Z
  <2>2. v >= Base
    <3> SUFFICES ASSUME v < Base PROVE FALSE
      BY <2>0, Constants
    <3>1. Groups[v] = <<[more |-> FALSE, bits |-> v]>>
      BY <1>10, <2>0
    <3>2. v % Base = v
      BY <2>0, Constants, OwnRemainder
    <3>3. base[v] \in Seq(Byte) /\ base[v] = <<[more |-> FALSE, bits |-> v % Base]>>
      BY <1>3, <2>0 DEF base
    <3> QED
      BY <2>0, <3>1, <3>2, <3>3
  <2>3. v \div Base \in Nat /\ v \div Base < v
    BY <2>1, <2>2, SmallerQuotient
  <2>4. Groups[v \div Base] \in Seq(Byte)
    BY <2>1, <2>3
  <2>5. Groups[v] = <<[more |-> TRUE, bits |-> v % Base]>> \o Groups[v \div Base]
    <3>1. ~(v < Base)
      BY <2>0, <2>2, Constants
    <3> QED
      BY <1>10, <2>0, <3>1
  <2>6. step[v][Groups[v \div Base]] \in Seq(Byte)
    BY <1>4, <2>0, <2>4
  <2>7. step[v][Groups[v \div Base]] = <<[more |-> TRUE, bits |-> v % Base]>> \o Groups[v \div Base]
    BY <2>0, <2>4 DEF step
  <2> QED
    BY <2>0, <2>5, <2>6, <2>7
<1> QED
  BY <1>9, <1>10, <1>11

LEMMA UnsignedDefined ==
  /\ Unsigned \in [Seq(Byte) -> Nat]
  /\ \A bytes \in Seq(Byte) : Unsigned[bytes] =
        IF bytes = <<>> THEN 0 ELSE Head(bytes).bits + Base * Unsigned[Tail(bytes)]
<1> DEFINE rank == [bytes \in Seq(Byte) |-> Len(bytes)]
           prev == [bytes \in Seq(Byte) |-> IF bytes = <<>> THEN <<>> ELSE Tail(bytes)]
           base == [bytes \in Seq(Byte) |-> 0]
           step == [bytes \in Seq(Byte) |-> [n \in Nat |-> IF bytes = <<>> THEN 0 ELSE Head(bytes).bits + Base * n]]
           Z == {<<>>}
<1>1. rank \in [Seq(Byte) -> Nat] /\ prev \in [Seq(Byte) -> Seq(Byte)] /\ base \in [Seq(Byte) -> Nat]
  OBVIOUS
<1>2. \A bytes \in Seq(Byte) : bytes # <<>> => Head(bytes).bits \in Nat
  <2> TAKE bytes \in Seq(Byte)
  <2> HAVE bytes # <<>>
  <2>1. Head(bytes) \in Byte
    BY HeadTailProperties
  <2> QED
    BY <2>1, Constants DEF Byte
<1>3. step \in [Seq(Byte) -> [Nat -> Nat]]
  <2> SUFFICES ASSUME NEW bytes \in Seq(Byte), bytes # <<>>, NEW n \in Nat
               PROVE  Head(bytes).bits + Base * n \in Nat
    OBVIOUS
  <2>1. Base * n \in Nat /\ Head(bytes).bits \in Nat
    BY <1>2, Constants
  <2> QED
    BY <2>1
<1>4. \A bytes \in Seq(Byte) : bytes \notin Z => rank[prev[bytes]] < rank[bytes]
  <2> SUFFICES ASSUME NEW bytes \in Seq(Byte), bytes # <<>> PROVE rank[prev[bytes]] < rank[bytes]
    OBVIOUS
  <2>1. Tail(bytes) \in Seq(Byte) /\ Len(Tail(bytes)) = Len(bytes) - 1 /\ Len(bytes) \in Nat
    BY HeadTailProperties
  <2> QED
    BY <2>1
<1>a. PICK f \in [Seq(Byte) -> Nat] : Recursive(f, Seq(Byte), prev, Z, base, step)
  <2> HIDE DEF rank, prev, base, step, Z
  <2>1. Descends(Seq(Byte), Nat, rank, prev, Z, base, step)
    BY <1>1, <1>3, <1>4 DEF Descends
  <2> QED
    BY <2>1, Recursion
<1>5. \A x \in Seq(Byte) : f[x] = IF x \in Z THEN base[x] ELSE step[x][f[prev[x]]]
  <2> HIDE DEF rank, prev, base, step, Z
  <2> QED
    BY <1>a DEF Recursive
<1>6. \A bytes \in Seq(Byte) : f[bytes] =
        IF bytes = <<>> THEN 0 ELSE Head(bytes).bits + Base * f[Tail(bytes)]
  <2> SUFFICES ASSUME NEW bytes \in Seq(Byte)
               PROVE  f[bytes] = IF bytes = <<>> THEN 0 ELSE Head(bytes).bits + Base * f[Tail(bytes)]
    OBVIOUS
  <2>1. CASE bytes = <<>>
    BY <1>5, <2>1
  <2>2. CASE bytes # <<>>
    <3>0. bytes \notin Z
      BY <2>2
    <3>1. f[bytes] = step[bytes][f[prev[bytes]]]
      <4> HIDE DEF Z, base, step, prev
      <4> QED
        BY <1>5, <3>0
    <3>2. prev[bytes] = Tail(bytes) /\ Tail(bytes) \in Seq(Byte) /\ f[Tail(bytes)] \in Nat
      BY <1>a, <2>2, HeadTailProperties
    <3> QED
      BY <2>2, <3>1, <3>2
  <2> QED
    BY <2>1, <2>2
<1>7. f = [bytes \in Seq(Byte) |->
        IF bytes = <<>> THEN 0 ELSE Head(bytes).bits + Base * f[Tail(bytes)]]
  BY <1>a, <1>6
<1>8. Unsigned = [bytes \in Seq(Byte) |->
        IF bytes = <<>> THEN 0 ELSE Head(bytes).bits + Base * Unsigned[Tail(bytes)]]
  BY <1>7, Zenon DEF Unsigned
<1>9. \A bytes \in Seq(Byte) : Unsigned[bytes] =
        IF bytes = <<>> THEN 0 ELSE Head(bytes).bits + Base * Unsigned[Tail(bytes)]
  BY <1>8, Zenon
<1> DEFINE odd == {bytes \in Seq(Byte) : Unsigned[bytes] \notin Nat}
           lengths == {Len(bytes) : bytes \in odd}
<1>10. ASSUME odd # {} PROVE FALSE
  <2>1. lengths \subseteq Nat /\ lengths # {}
    <3>1. \A bytes \in odd : Len(bytes) \in Nat
      OBVIOUS
    <3> HIDE DEF odd
    <3> QED
      BY <1>10, <3>1
  <2>2. PICK n \in lengths : \A other \in lengths : n <= other
    BY <2>1, LeastElement
  <2>3. PICK bytes \in odd : n = Len(bytes)
    BY <2>2
  <2>4. bytes # <<>>
    BY <1>9, <2>3
  <2>5. Tail(bytes) \in Seq(Byte) /\ Len(Tail(bytes)) = Len(bytes) - 1 /\ Len(bytes) \in Nat
    BY <2>3, <2>4, HeadTailProperties
  <2>6. ASSUME Tail(bytes) \in odd PROVE FALSE
    <3>1. Len(Tail(bytes)) \in lengths
      BY <2>6
    <3>2. n <= Len(Tail(bytes))
      BY <2>2, <3>1
    <3> QED
      BY <2>3, <2>5, <3>2
  <2>7. Unsigned[Tail(bytes)] \in Nat
    BY <2>5, <2>6
  <2>8. Unsigned[bytes] = Head(bytes).bits + Base * Unsigned[Tail(bytes)]
    BY <1>9, <2>3, <2>4
  <2>9. Head(bytes).bits \in Nat /\ Base * Unsigned[Tail(bytes)] \in Nat
    BY <1>2, <2>3, <2>4, <2>7, Constants
  <2>10. Unsigned[bytes] \in Nat
    <3> HIDE DEF odd
    <3> QED
      BY <2>8, <2>9
  <2> QED
    BY <2>3, <2>10
<1> QED
  BY <1>8, <1>9, <1>10

LEMMA LastByte ==
  ASSUME NEW bits \in 0 .. (Base - 1)
  PROVE  LET bytes == <<[more |-> FALSE, bits |-> bits]>>
         IN  bytes \in Seq(Byte) /\ Complete(bytes) /\ Unsigned[bytes] = bits
<1> DEFINE byte == [more |-> FALSE, bits |-> bits]
<1>1. byte \in Byte /\ ~byte.more /\ byte.bits = bits
  BY DEF Byte
<1> HIDE DEF byte
<1>2. /\ <<byte>> \in Seq(Byte) /\ <<byte>> # <<>> /\ Len(<<byte>>) = 1 /\ DOMAIN <<byte>> = 1 .. 1
      /\ Head(<<byte>>) = byte /\ Tail(<<byte>>) = <<>> /\ <<byte>>[1] = byte
  BY <1>1
<1>3. Complete(<<byte>>)
  BY <1>1, <1>2 DEF Complete
<1>4. Unsigned[<<>>] = 0
  <2>1. <<>> \in Seq(Byte)
    OBVIOUS
  <2> QED
    BY <2>1, UnsignedDefined
<1>5. Unsigned[<<byte>>] = byte.bits + Base * Unsigned[<<>>]
  BY <1>2, UnsignedDefined
<1> QED
  BY <1>1, <1>2, <1>3, <1>4, <1>5, Constants DEF byte

LEMMA FirstByte ==
  ASSUME NEW bits \in 0 .. (Base - 1), NEW rest \in Seq(Byte), Complete(rest)
  PROVE  LET bytes == <<[more |-> TRUE, bits |-> bits]>> \o rest
         IN  bytes \in Seq(Byte) /\ Complete(bytes) /\ Unsigned[bytes] = bits + Base * Unsigned[rest]
<1> DEFINE byte == [more |-> TRUE, bits |-> bits]
           bytes == <<byte>> \o rest
<1>1. byte \in Byte /\ byte.more /\ byte.bits = bits
  BY DEF Byte
<1> HIDE DEF byte
<1>2. /\ bytes \in Seq(Byte) /\ bytes # <<>> /\ Len(bytes) = Len(rest) + 1
      /\ Head(bytes) = byte /\ Tail(bytes) = rest /\ bytes[1] = byte
      /\ \A i \in 1 .. Len(rest) : bytes[i + 1] = rest[i]
  BY <1>1, OneByte
<1> HIDE DEF bytes
<1>3. Len(rest) \in Nat /\ Len(rest) > 0 /\ \A i \in 1 .. Len(rest) : rest[i].more <=> i < Len(rest)
  BY DEF Complete
<1>4. Complete(bytes)
  <2> SUFFICES ASSUME NEW i \in 1 .. Len(bytes) PROVE bytes[i].more <=> i < Len(bytes)
    BY <1>2 DEF Complete
  <2>1. CASE i = 1
    BY <1>1, <1>2, <1>3, <2>1
  <2>2. CASE i # 1
    <3> DEFINE j == i - 1
    <3>1. j \in 1 .. Len(rest) /\ i = j + 1
      BY <1>2, <1>3, <2>2
    <3>2. bytes[i] = rest[j]
      BY <1>2, <3>1
    <3>3. rest[j].more <=> j < Len(rest)
      BY <1>3, <3>1
    <3> QED
      BY <1>2, <1>3, <3>1, <3>2, <3>3
  <2> QED
    BY <2>1, <2>2
<1>5. Unsigned[bytes] = byte.bits + Base * Unsigned[rest]
  BY <1>2, UnsignedDefined
<1> QED
  BY <1>1, <1>2, <1>4, <1>5 DEF bytes, byte

\* write_varint and the reading of its bytes are inverse to each other.
LEMMA GroupsRead ==
  ASSUME NEW v \in Nat
  PROVE  Groups[v] \in Seq(Byte) /\ Complete(Groups[v]) /\ Unsigned[Groups[v]] = v
<1> DEFINE Right(n) == Complete(Groups[n]) /\ Unsigned[Groups[n]] = n
           odd == {n \in Nat : ~Right(n)}
<1>1. \A n \in Nat : Groups[n] \in Seq(Byte)
  BY GroupsDefined
<1>2. ASSUME odd # {} PROVE FALSE
  <2>1. PICK n \in odd : \A other \in odd : n <= other
    BY <1>2, LeastElement
  <2>2. n \in Nat /\ ~Right(n)
    BY <2>1
  <2>3. CASE n < Base
    <3>1. Groups[n] = <<[more |-> FALSE, bits |-> n]>>
      BY <2>2, <2>3, GroupsDefined
    <3>2. n \in 0 .. (Base - 1)
      BY <2>2, <2>3, Constants
    <3> QED
      BY <2>2, <3>1, <3>2, LastByte
  <2>4. CASE ~(n < Base)
    <3> DEFINE q == n \div Base
               r == n % Base
    <3>1. n >= Base
      BY <2>2, <2>4, Constants
    <3>2. q \in Nat /\ q < n /\ r \in 0 .. (Base - 1) /\ n = Base * q + r
      BY <2>2, <3>1, SmallerQuotient, DivMod, Constants
    <3>3. Groups[n] = <<[more |-> TRUE, bits |-> r]>> \o Groups[q]
      BY <2>2, <2>4, GroupsDefined
    <3> HIDE DEF q, r
    <3>4. Right(q)
      BY <2>1, <2>2, <3>2
    <3>5. Complete(Groups[n]) /\ Unsigned[Groups[n]] = r + Base * Unsigned[Groups[q]]
      BY <1>1, <3>2, <3>3, <3>4, FirstByte
    <3>6. r + Base * q = n
      BY <3>2, Constants
    <3> QED
      BY <2>2, <3>4, <3>5, <3>6
  <2> QED
    BY <2>3, <2>4
<1> QED
  BY <1>1, <1>2

-----------------------------------------------------------------------------
(* Signed numbers.                                                         *)

LEMMA Halves == LET half == Modulus \div 2 IN half \in Nat \ {0} /\ Modulus = half + half
<1>1. Modulus = 2 * (Modulus \div 2) + (Modulus % 2) /\ Modulus \div 2 \in Nat
  BY Constants, DivMod
<1> QED
  BY <1>1, Constants

Signed(unsigned) == IF unsigned < Modulus \div 2 THEN unsigned ELSE unsigned - Modulus

LEMMA ValueInRange ==
  ASSUME NEW bytes \in Seq(Byte)
  PROVE  Value(bytes) \in Word /\ Value(bytes) \in Int
<1>1. Unsigned[bytes] \in Nat
  BY UnsignedDefined
<1>2. Unsigned[bytes] % Modulus \in 0 .. (Modulus - 1)
  BY <1>1, Constants, DivMod
<1> QED
  BY <1>2, Halves DEF Value, Word

LEMMA Remainders ==
  /\ \A v \in 0 .. (Modulus - 1) : v % Modulus = v
  /\ \A v \in Word : v % Modulus \in 0 .. (Modulus - 1) /\ Signed(v % Modulus) = v
<1>1. ASSUME NEW v \in 0 .. (Modulus - 1) PROVE v % Modulus = v
  BY Constants, OwnRemainder
<1>2. ASSUME NEW v \in Word PROVE v % Modulus \in 0 .. (Modulus - 1) /\ Signed(v % Modulus) = v
  <2>1. v \in Int /\ -Modulus < v /\ v < Modulus
    BY Halves, Constants DEF Word
  <2>2. CASE v >= 0
    <3>1. v % Modulus = v
      BY <2>1, <2>2, Constants, OwnRemainder
    <3> QED
      BY <2>1, <2>2, <3>1, Halves DEF Signed, Word
  <2>3. CASE v < 0
    <3>1. v % Modulus = v + Modulus
      BY <2>1, <2>3, Constants
    <3> QED
      BY <2>1, <2>3, <3>1, Halves DEF Signed, Word
  <2> QED
    BY <2>1, <2>2, <2>3
<1> QED
  BY <1>1, <1>2

LEMMA Written ==
  ASSUME NEW v \in Int, v % Modulus \in 0 .. (Modulus - 1)
  PROVE  /\ WriteVarInt(v) \in Seq(Byte) /\ Complete(WriteVarInt(v))
         /\ Len(WriteVarInt(v)) \in 1 .. MaxVarIntBytes
         /\ Value(WriteVarInt(v)) = Signed(v % Modulus)
<1> DEFINE u == v % Modulus
<1>1. u \in Nat /\ Groups[u] \in Seq(Byte) /\ Complete(Groups[u]) /\ Unsigned[Groups[u]] = u
  BY Constants, GroupsRead
<1>2. u % Modulus = u
  BY Remainders
<1>3. Len(Groups[u]) <= MaxVarIntBytes
  BY CodecAssumption DEF CodecAssumption
<1>4. Len(Groups[u]) > 0 /\ Len(Groups[u]) \in Nat
  BY <1>1 DEF Complete
<1>5. WriteVarInt(v) = Groups[u]
  BY DEF WriteVarInt
<1>6. Value(Groups[u]) = Signed(Unsigned[Groups[u]] % Modulus)
  BY DEF Value, Signed
<1>7. Value(Groups[u]) = Signed(u)
  <2> HIDE DEF u
  <2> QED
    BY <1>1, <1>2, <1>6
<1>8. Len(Groups[u]) \in 1 .. MaxVarIntBytes
  <2> HIDE DEF u
  <2> QED
    BY <1>3, <1>4, Constants
<1> QED
  BY <1>1, <1>5, <1>7, <1>8

\* What write_varint writes for a number, read_varint reads as that number.
THEOREM ReadsWhatWasWritten ==
  ASSUME NEW value \in Word
  PROVE  /\ WriteVarInt(value) \in Seq(Byte) /\ Complete(WriteVarInt(value))
         /\ Len(WriteVarInt(value)) \in 1 .. MaxVarIntBytes
         /\ Value(WriteVarInt(value)) = value
<1>1. value \in Int
  BY Halves DEF Word
<1> QED
  BY <1>1, Remainders, Written

-----------------------------------------------------------------------------
(* What bytes stand for.                                                   *)

LEMMA RoomForAByte == MaxVarIntBytes >= 1
<1>1. 0 \in 0 .. (Modulus - 1) /\ 0 % Modulus = 0
  BY Constants, Remainders
<1>2. Len(WriteVarInt(0)) \in 1 .. MaxVarIntBytes
  BY <1>1, Written
<1> QED
  BY <1>2, Constants

LEMMA Part ==
  ASSUME NEW bytes \in Seq(Byte), NEW m \in Nat, NEW n \in Nat, m <= n, n <= Len(bytes)
  PROVE  /\ SubSeq(bytes, m + 1, n) \in Seq(Byte) /\ Len(SubSeq(bytes, m + 1, n)) = n - m
         /\ \A i \in 1 .. (n - m) : SubSeq(bytes, m + 1, n)[i] = bytes[m + i]
<1>1. \A i \in (m + 1) .. n : bytes[i] \in Byte
  BY ElementOfSeq
<1>2. m + 1 \in Int /\ n \in Int
  OBVIOUS
<1>3. /\ SubSeq(bytes, m + 1, n) \in Seq(Byte)
      /\ Len(SubSeq(bytes, m + 1, n)) = IF m + 1 <= n THEN n - (m + 1) + 1 ELSE 0
      /\ \A i \in 1 .. (n - (m + 1) + 1) : SubSeq(bytes, m + 1, n)[i] = bytes[m + 1 + i - 1]
  BY <1>1, <1>2, SubSeqProperties
<1>4. n - (m + 1) + 1 = n - m /\ \A i \in 1 .. (n - m) : m + 1 + i - 1 = m + i
  OBVIOUS
<1> QED
  BY <1>3, <1>4

LEMMA FrontPart ==
  ASSUME NEW bytes \in Seq(Byte), NEW n \in Nat, n <= Len(bytes)
  PROVE  /\ SubSeq(bytes, 1, n) \in Seq(Byte) /\ Len(SubSeq(bytes, 1, n)) = n
         /\ \A i \in 1 .. n : SubSeq(bytes, 1, n)[i] = bytes[i]
BY Part, 0 + 1 = 1

LEMMA Fronts ==
  ASSUME NEW bytes \in Seq(Byte), NEW n
  PROVE  n \in VarIntLengths(bytes) <=>
           /\ n \in 1 .. MaxVarIntBytes /\ n <= Len(bytes)
           /\ \A i \in 1 .. n : bytes[i].more <=> i < n
<1> SUFFICES ASSUME n \in 1 .. MaxVarIntBytes, n <= Len(bytes)
             PROVE  Complete(SubSeq(bytes, 1, n)) <=> \A i \in 1 .. n : bytes[i].more <=> i < n
  BY DEF VarIntLengths
<1> DEFINE front == SubSeq(bytes, 1, n)
<1>1. n \in Nat /\ n >= 1
  BY Constants
<1>2. front \in Seq(Byte) /\ Len(front) = n /\ \A i \in 1 .. n : front[i] = bytes[i]
  BY <1>1, FrontPart
<1> HIDE DEF front
<1>3. DOMAIN front = 1 .. n /\ front # <<>>
  BY <1>1, <1>2
<1> QED
  BY <1>2, <1>3 DEF Complete, front

LEMMA OneFront ==
  ASSUME NEW bytes \in Seq(Byte), NEW n \in VarIntLengths(bytes), NEW m \in VarIntLengths(bytes)
  PROVE  n = m
<1>1. /\ n \in Nat /\ n >= 1 /\ \A i \in 1 .. n : bytes[i].more <=> i < n
      /\ m \in Nat /\ m >= 1 /\ \A i \in 1 .. m : bytes[i].more <=> i < m
  BY Fronts, Constants
<1>2. CASE n < m
  <2>1. n \in 1 .. n /\ n \in 1 .. m
    BY <1>1, <1>2
  <2> QED
    BY <1>1, <1>2, <2>1
<1>3. CASE m < n
  <2>1. m \in 1 .. n /\ m \in 1 .. m
    BY <1>1, <1>3
  <2> QED
    BY <1>1, <1>3, <2>1
<1> QED
  BY <1>1, <1>2, <1>3

LEMMA Joined ==
  ASSUME NEW front \in Seq(Byte), NEW rest \in Seq(Byte)
  PROVE  /\ front \o rest \in Seq(Byte) /\ Len(front \o rest) = Len(front) + Len(rest)
         /\ SubSeq(front \o rest, 1, Len(front)) = front
         /\ SubSeq(front \o rest, Len(front) + 1, Len(front \o rest)) = rest
<1> DEFINE n == Len(front)
           all == front \o rest
<1>1. /\ n \in Nat /\ Len(rest) \in Nat
      /\ all \in Seq(Byte) /\ Len(all) = n + Len(rest)
      /\ \A i \in 1 .. (n + Len(rest)) : all[i] = IF i <= n THEN front[i] ELSE rest[i - n]
  BY ConcatProperties, LenProperties
<1> HIDE DEF all
<1>2. /\ SubSeq(all, 1, n) \in Seq(Byte) /\ Len(SubSeq(all, 1, n)) = n
      /\ \A i \in 1 .. n : SubSeq(all, 1, n)[i] = front[i]
  BY <1>1, FrontPart
<1>3. SubSeq(all, 1, n) = front
  BY <1>2, SeqEqual
<1>4. /\ SubSeq(all, n + 1, Len(all)) \in Seq(Byte)
      /\ Len(SubSeq(all, n + 1, Len(all))) = Len(all) - n
      /\ \A i \in 1 .. (Len(all) - n) : SubSeq(all, n + 1, Len(all))[i] = all[n + i]
  <2>1. Len(all) \in Nat /\ n <= Len(all)
    BY <1>1
  <2> QED
    BY <1>1, <2>1, Part
<1>5. \A i \in 1 .. Len(rest) : all[n + i] = rest[i]
  BY <1>1
<1>6. SubSeq(all, n + 1, Len(all)) = rest
  <2>1. Len(all) - n = Len(rest)
    BY <1>1
  <2> QED
    BY <1>4, <1>5, <2>1, SeqEqual
<1> QED
  BY <1>1, <1>3, <1>6 DEF all

LEMMA WholeFront ==
  ASSUME NEW front \in Seq(Byte), NEW rest \in Seq(Byte), Complete(front), Len(front) \in 1 .. MaxVarIntBytes
  PROVE  Len(front) \in VarIntLengths(front \o rest)
<1>1. SubSeq(front \o rest, 1, Len(front)) = front /\ Len(front) <= Len(front \o rest)
  BY Joined, LenProperties
<1> QED
  BY <1>1 DEF VarIntLengths

\* A packet is written as bytes that stand for it, or for nothing readable when
\* it is longer than the limit of the reader.
LEMMA PacketStands ==
  ASSUME NEW packet \in Packets
  PROVE  LET body == Body(packet)
             bytes == WriteVarInt(Len(body)) \o body
         IN  /\ bytes \in Seq(Byte)
             /\ StandsFor(bytes, IF Len(body) <= MaxFrameLength THEN packet ELSE Unreadable)
<1> DEFINE body == Body(packet)
           length == WriteVarInt(Len(body))
           id == WriteVarInt(packet.id)
<1>1. /\ packet.id \in Word /\ packet.payload \in Seq(Byte) /\ packet # Unreadable
      /\ packet = [id |-> packet.id, payload |-> packet.payload]
      /\ Len(body) < Modulus
  BY CodecAssumption DEF CodecAssumption
<1>2. id \in Seq(Byte) /\ Complete(id) /\ Len(id) \in 1 .. MaxVarIntBytes /\ Value(id) = packet.id
  BY <1>1, ReadsWhatWasWritten
<1>3. body = id \o packet.payload
  BY DEF Body
<1> HIDE DEF body, id
<1>4. /\ body \in Seq(Byte) /\ Len(body) \in Nat /\ Len(id) \in VarIntLengths(body)
      /\ SubSeq(body, 1, Len(id)) = id /\ SubSeq(body, Len(id) + 1, Len(body)) = packet.payload
  BY <1>1, <1>2, <1>3, Joined, WholeFront, LenProperties
<1>5. Len(body) \in 0 .. (Modulus - 1) /\ Len(body) % Modulus = Len(body)
  <2>1. Len(body) \in 0 .. (Modulus - 1)
    BY <1>1, <1>4, Constants
  <2> QED
    BY <2>1, Remainders
<1>6. /\ length \in Seq(Byte) /\ Complete(length) /\ Len(length) \in 1 .. MaxVarIntBytes
      /\ Value(length) = Signed(Len(body))
  BY <1>5, Written
<1> HIDE DEF length
<1> DEFINE bytes == length \o body
           n == Len(length)
<1>7. /\ bytes \in Seq(Byte) /\ n \in VarIntLengths(bytes)
      /\ SubSeq(bytes, 1, n) = length /\ SubSeq(bytes, n + 1, Len(bytes)) = body
  BY <1>4, <1>6, Joined, WholeFront
<1> HIDE DEF bytes
<1>8. CASE Len(body) <= MaxFrameLength
  <2>1. Value(length) = Len(body)
    BY <1>4, <1>6, <1>8, Halves, Constants DEF Signed
  <2>2. IsPacket(bytes, packet)
    BY <1>1, <1>2, <1>4, <1>7, <1>8, <2>1 DEF IsPacket
  <2> QED
    BY <1>1, <1>7, <1>8, <2>2 DEF StandsFor, bytes, length, body
<1>9. CASE ~(Len(body) <= MaxFrameLength)
  <2>1. Value(length) \notin 0 .. MaxFrameLength
    BY <1>4, <1>5, <1>6, <1>9, Halves, Constants DEF Signed
  <2>2. IsNone(bytes)
    BY <1>7, <2>1 DEF IsNone
  <2> QED
    BY <1>7, <1>9, <2>2 DEF StandsFor, bytes, length, body
<1> QED
  BY <1>8, <1>9

LEMMA SomeBytes ==
  ASSUME NEW bytes \in Seq(Byte), NEW item, StandsFor(bytes, item)
  PROVE  Len(bytes) >= 1
<1>1. CASE \E n : n \in VarIntLengths(bytes)
  BY <1>1, Fronts, Constants, LenProperties
<1>2. CASE Len(bytes) >= MaxVarIntBytes
  BY <1>2, RoomForAByte, Constants, LenProperties
<1> QED
  BY <1>1, <1>2 DEF StandsFor, IsPacket, IsNone

-----------------------------------------------------------------------------
(* What is read of the bytes of an item.                                   *)

\* What has been read is what the item has from some place on.
Agree(bytes, item, from) == \A i \in 1 .. Len(bytes) : from + i <= Len(item) => bytes[i] = item[from + i]

\* A frame that begins with the id of a packet, whose payload is the rest.
Reads(f, packet) ==
    \E i \in VarIntLengths(f) :
        packet = [id |-> Value(SubSeq(f, 1, i)), payload |-> SubSeq(f, i + 1, Len(f))]

LEMMA SameFront ==
  ASSUME NEW chunk \in Seq(Byte), NEW n \in VarIntLengths(chunk),
         NEW h \in Seq(Byte), Complete(h), Agree(h, chunk, 0)
  PROVE  h = SubSeq(chunk, 1, n) /\ Len(h) = n
<1> DEFINE m == Len(h)
<1>1. m \in Nat /\ m >= 1 /\ Len(chunk) \in Nat /\ \A i \in 1 .. m : h[i].more <=> i < m
  BY LenProperties DEF Complete
<1>2. n \in Nat /\ n >= 1 /\ n <= Len(chunk) /\ \A i \in 1 .. n : chunk[i].more <=> i < n
  BY Fronts, Constants
<1>3. \A i \in 1 .. m : i <= Len(chunk) => h[i] = chunk[i]
  <2> TAKE i \in 1 .. m
  <2>1. 0 + i = i
    BY <1>1
  <2> QED
    BY <2>1 DEF Agree
<1> HIDE DEF m
<1>4. CASE m < n
  <2>1. m \in 1 .. m /\ m \in 1 .. n /\ m <= Len(chunk)
    BY <1>1, <1>2, <1>4
  <2> QED
    BY <1>1, <1>2, <1>3, <1>4, <2>1
<1>5. CASE n < m
  <2>1. n \in 1 .. m /\ n \in 1 .. n
    BY <1>1, <1>2, <1>5
  <2> QED
    BY <1>1, <1>2, <1>3, <1>5, <2>1
<1>6. CASE n = m
  <2>1. /\ SubSeq(chunk, 1, n) \in Seq(Byte) /\ Len(SubSeq(chunk, 1, n)) = n
        /\ \A i \in 1 .. n : SubSeq(chunk, 1, n)[i] = chunk[i]
    BY <1>2, FrontPart
  <2>2. \A i \in 1 .. m : h[i] = SubSeq(chunk, 1, n)[i]
    BY <1>1, <1>2, <1>3, <1>6, <2>1
  <2>3. h = SubSeq(chunk, 1, n)
    BY <1>6, <2>1, <2>2, SeqEqual DEF m
  <2> QED
    BY <1>6, <2>3 DEF m
<1> QED
  BY <1>1, <1>2, <1>4, <1>5, <1>6

\* A length that was read is the one that the item begins with.
LEMMA LengthRead ==
  ASSUME NEW chunk \in Seq(Byte), NEW item, StandsFor(chunk, item),
         NEW h \in Seq(Byte), Complete(h), Len(h) <= MaxVarIntBytes, Agree(h, chunk, 0)
  PROVE  /\ item # Unreadable =>
               /\ Len(h) <= Len(chunk)
               /\ Len(SubSeq(chunk, Len(h) + 1, Len(chunk))) = Value(h) /\ Value(h) <= MaxFrameLength
               /\ Reads(SubSeq(chunk, Len(h) + 1, Len(chunk)), item)
         /\ item = Unreadable =>
               \/ Value(h) \notin 0 .. MaxFrameLength
               \/ /\ Len(chunk) >= Len(h) + Value(h)
                  /\ VarIntLengths(SubSeq(chunk, Len(h) + 1, Len(h) + Value(h))) = {}
<1>1. \A n \in VarIntLengths(chunk) : h = SubSeq(chunk, 1, n) /\ Len(h) = n /\ n <= Len(chunk)
  BY SameFront, Fronts
<1>2. CASE item # Unreadable
  <2>1. PICK n \in VarIntLengths(chunk) :
          /\ Len(SubSeq(chunk, n + 1, Len(chunk))) <= MaxFrameLength
          /\ Len(SubSeq(chunk, n + 1, Len(chunk))) = Value(SubSeq(chunk, 1, n))
          /\ Reads(SubSeq(chunk, n + 1, Len(chunk)), item)
    BY <1>2 DEF StandsFor, IsPacket, Reads
  <2> QED
    BY <1>1, <1>2, <2>1
<1>3. CASE item = Unreadable
  <2>1. IsNone(chunk)
    BY <1>3 DEF StandsFor
  <2>2. CASE \E n \in VarIntLengths(chunk) :
               LET length == Value(SubSeq(chunk, 1, n))
               IN  \/ length \notin 0 .. MaxFrameLength
                   \/ Len(chunk) >= n + length /\ VarIntLengths(SubSeq(chunk, n + 1, n + length)) = {}
    BY <1>1, <1>3, <2>2
  <2>3. CASE Len(chunk) >= MaxVarIntBytes /\ \A i \in 1 .. MaxVarIntBytes : chunk[i].more
    <3>1. Len(h) \in Nat /\ Len(h) >= 1 /\ Len(chunk) \in Nat /\ ~h[Len(h)].more
      BY LenProperties DEF Complete
    <3>2. Len(h) \in 1 .. MaxVarIntBytes /\ Len(h) <= Len(chunk)
      BY <2>3, <3>1, Constants
    <3>3. h[Len(h)] = chunk[Len(h)]
      BY <3>1, <3>2 DEF Agree
    <3> QED
      BY <2>3, <3>1, <3>2, <3>3
  <2> QED
    BY <2>1, <2>2, <2>3 DEF IsNone
<1> QED
  BY <1>2, <1>3

\* A frame that was read whole is the one of the item.
LEMMA FrameRead ==
  ASSUME NEW chunk \in Seq(Byte), NEW item, StandsFor(chunk, item),
         NEW h \in Seq(Byte), Complete(h), Len(h) <= MaxVarIntBytes, Agree(h, chunk, 0),
         NEW f \in Seq(Byte), Len(f) = Value(h), Len(f) <= MaxFrameLength, Agree(f, chunk, Len(h))
  PROVE  IF item = Unreadable THEN VarIntLengths(f) = {}
         ELSE /\ Len(h) + Len(f) = Len(chunk)
              /\ Reads(f, item)
<1>1. /\ Len(h) \in Nat /\ Len(f) \in Nat /\ Len(chunk) \in Nat
      /\ \A i \in 1 .. Len(f) : Len(h) + i <= Len(chunk) => f[i] = chunk[Len(h) + i]
  BY LenProperties DEF Agree
<1> DEFINE part(n) == SubSeq(chunk, Len(h) + 1, n)
<1>2. ASSUME Len(h) + Len(f) <= Len(chunk) PROVE part(Len(h) + Len(f)) = f
  <2> DEFINE n == Len(h) + Len(f)
  <2>1. n \in Nat /\ Len(h) <= n /\ n - Len(h) = Len(f)
    BY <1>1
  <2>2. /\ part(n) \in Seq(Byte) /\ Len(part(n)) = n - Len(h)
        /\ \A i \in 1 .. (n - Len(h)) : part(n)[i] = chunk[Len(h) + i]
    BY <1>1, <1>2, <2>1, Part
  <2> HIDE DEF part
  <2>3. ASSUME NEW i \in 1 .. Len(f) PROVE part(n)[i] = f[i]
    <3>1. i \in 1 .. (n - Len(h)) /\ Len(h) + i <= Len(chunk)
      BY <1>1, <1>2
    <3>2. part(n)[i] = chunk[Len(h) + i]
      <4> HIDE DEF n
      <4> QED
        BY <2>2, <3>1
    <3> QED
      BY <1>1, <3>1, <3>2
  <2> HIDE DEF n
  <2>4. part(n) = f
    BY <2>1, <2>2, <2>3, SeqEqual
  <2> QED
    BY <2>4 DEF n
<1>3. CASE item = Unreadable
  <2>1. \/ Value(h) \notin 0 .. MaxFrameLength
        \/ Len(chunk) >= Len(h) + Value(h) /\ VarIntLengths(part(Len(h) + Value(h))) = {}
    BY <1>3, LengthRead
  <2>2. Value(h) \in 0 .. MaxFrameLength
    BY <1>1, Constants
  <2> QED
    BY <1>1, <1>2, <1>3, <2>1, <2>2
<1>4. CASE item # Unreadable
  <2> DEFINE body == part(Len(chunk))
  <2>1. Len(h) <= Len(chunk) /\ Len(body) = Len(f) /\ Reads(body, item)
    BY <1>4, LengthRead
  <2>2. Len(body) = Len(chunk) - Len(h)
    BY <1>1, <2>1, Part
  <2>3. Len(h) + Len(f) = Len(chunk)
    <3> HIDE DEF part
    <3> QED
      BY <1>1, <2>1, <2>2
  <2>4. body = f
    BY <1>1, <1>2, <2>3
  <2> QED
    BY <1>4, <2>1, <2>3, <2>4
<1> QED
  BY <1>3, <1>4

\* The length of a packet ends in time.
LEMMA LengthEnds ==
  ASSUME NEW chunk \in Seq(Byte), NEW item, StandsFor(chunk, item),
         NEW h \in Seq(Byte), Len(h) = MaxVarIntBytes, \A i \in 1 .. Len(h) : h[i].more, Agree(h, chunk, 0)
  PROVE  item = Unreadable
<1> SUFFICES ASSUME item # Unreadable PROVE FALSE
  OBVIOUS
<1>1. PICK n : n \in VarIntLengths(chunk)
  BY DEF StandsFor, IsPacket
<1>2. n \in Nat /\ n \in 1 .. MaxVarIntBytes /\ n <= Len(chunk) /\ ~chunk[n].more
  BY <1>1, Fronts, Constants
<1>3. h[n] = chunk[n]
  <2>1. n \in 1 .. Len(h) /\ 0 + n = n
    BY <1>2
  <2> QED
    BY <1>2, <2>1 DEF Agree
<1> QED
  BY <1>2, <1>3

-----------------------------------------------------------------------------
(* Types.                                                                  *)

LEMMA PutSomething ==
  ASSUME \/ \E packet \in Packets : WritePacket(packet)
         \/ \E other \in Others : WriteOther(other)
  PROVE  \E bytes \in Seq(Byte), item \in Items : StandsFor(bytes, item) /\ Put(bytes, item)
<1>1. ASSUME NEW packet \in Packets, WritePacket(packet)
      PROVE  \E bytes \in Seq(Byte), item \in Items : StandsFor(bytes, item) /\ Put(bytes, item)
  <2> DEFINE bytes == WriteVarInt(Len(Body(packet))) \o Body(packet)
             item == IF Len(Body(packet)) <= MaxFrameLength THEN packet ELSE Unreadable
  <2>1. bytes \in Seq(Byte) /\ StandsFor(bytes, item)
    BY PacketStands, Zenon
  <2>2. item \in Items
    BY DEF Items
  <2>3. Put(bytes, item)
    BY <1>1 DEF WritePacket
  <2> HIDE DEF bytes, item
  <2> QED
    BY <2>1, <2>2, <2>3
<1>2. ASSUME NEW other \in Others, WriteOther(other)
      PROVE  \E bytes \in Seq(Byte), item \in Items : StandsFor(bytes, item) /\ Put(bytes, item)
  <2>1. other.bytes \in Seq(Byte) /\ StandsFor(other.bytes, other.item)
    BY CodecAssumption DEF CodecAssumption
  <2>2. other.item \in Items
    BY DEF Items
  <2> QED
    BY <1>2, <2>1, <2>2 DEF WriteOther
<1> QED
  BY <1>1, <1>2

LEMMA TypeInit == Init => TypeOK
<1> SUFFICES ASSUME Init PROVE TypeOK
  OBVIOUS
<1>1. /\ <<>> \in Seq(Byte) /\ <<>> \in Seq(Items) /\ <<>> \in Seq(Nat) /\ Len(<<>>) = 0
      /\ <<>> \in Seq([id : Word, payload : Seq(Byte)])
  BY EmptySeq
<1>2. Len(sent) <= MaxSent
  BY <1>1, Constants DEF Init
<1>3. wire \in Seq(Byte) /\ head \in Seq(Byte) /\ frame \in Seq(Byte) /\ written \in Seq(Byte) /\ consumed \in Seq(Byte)
  BY <1>1 DEF Init
<1>4. sent \in Seq(Items) /\ received \in Seq([id : Word, payload : Seq(Byte)]) /\ ends \in Seq(Nat)
  BY <1>1 DEF Init
<1> QED
  BY <1>1, <1>2, <1>3, <1>4 DEF Init, TypeOK

LEMMA Taken ==
  ASSUME wire \in Seq(Byte), Take
  PROVE  /\ Head(wire) \in Byte /\ wire' \in Seq(Byte) /\ Len(wire') = Len(wire) - 1
         /\ Len(wire) \in Nat \ {0} /\ Head(wire) = wire[1]
         /\ \A i \in 1 .. Len(wire') : wire'[i] = wire[i + 1]
BY HeadTailProperties, LenProperties, EmptySeq DEF Take

LEMMA TypeStep == TypeOK /\ [Next]_vars => TypeOK'
<1> SUFFICES ASSUME TypeOK, [Next]_vars PROVE TypeOK'
  OBVIOUS
<1> USE DEF TypeOK
<1>1. ASSUME NEW bytes \in Seq(Byte), NEW item \in Items, Put(bytes, item) PROVE TypeOK'
  <2>1. wire' \in Seq(Byte) /\ written' \in Seq(Byte) /\ Len(written') = Len(written) + Len(bytes)
    BY <1>1, ConcatProperties DEF Put
  <2>2. Len(written) \in Nat /\ Len(bytes) \in Nat /\ Len(written') \in Nat
    BY <2>1, LenProperties
  <2>3. sent' \in Seq(Items) /\ Len(sent') = Len(sent) + 1 /\ ends' \in Seq(Nat)
    BY <1>1, <2>2, AppendProperties DEF Put
  <2>4. Len(sent') <= MaxSent
    BY <1>1, <2>3, LenProperties, Constants DEF Put
  <2> QED
    BY <1>1, <2>1, <2>3, <2>4 DEF Put
<1>2. CASE Cut
  <2>1. PICK n \in 0 .. Len(wire) : wire' = SubSeq(wire, 1, n) /\ lost' = Len(wire) - n
    BY <1>2 DEF Cut
  <2>2. n \in Nat /\ n <= Len(wire) /\ Len(wire) \in Nat
    BY LenProperties
  <2>3. wire' \in Seq(Byte) /\ lost' \in Nat
    BY <2>1, <2>2, FrontPart
  <2> QED
    BY <1>2, <2>3 DEF Cut
<1>3. CASE ReadOn
  <2> QED
    BY <1>3, Taken DEF ReadOn, ReadsLength, Heading, peer
<1>4. CASE VarIntTooLong \/ BadLength
  <2> QED
    BY <1>4, Taken DEF VarIntTooLong, BadLength, End, ReadsLength, peer
<1>5. CASE ReadLength
  <2> QED
    BY <1>5, Taken DEF ReadLength, ReadsLength, Heading, peer
<1>6. CASE ReadFrame
  <2> QED
    BY <1>6, Taken DEF ReadFrame, peer
<1>7. CASE ReturnPacket
  <2>1. PICK n \in IdLengths :
          received' = Append(received, [id |-> Value(SubSeq(frame, 1, n)),
                                        payload |-> SubSeq(frame, n + 1, Len(frame))])
    BY <1>7 DEF ReturnPacket
  <2>2. n \in Nat /\ n <= Len(frame) /\ Len(frame) \in Nat
    BY Fronts, Constants, LenProperties DEF IdLengths
  <2>3. Value(SubSeq(frame, 1, n)) \in Word /\ SubSeq(frame, n + 1, Len(frame)) \in Seq(Byte)
    <3>1. SubSeq(frame, 1, n) \in Seq(Byte)
      BY <2>2, FrontPart
    <3>2. SubSeq(frame, n + 1, Len(frame)) \in Seq(Byte)
      BY <2>2, Part
    <3> QED
      BY <3>1, <3>2, ValueInRange
  <2>4. received' \in Seq([id : Word, payload : Seq(Byte)])
    BY <2>1, <2>3, AppendProperties
  <2>5. consumed' \in Seq(Byte)
    BY <1>7, ConcatProperties DEF ReturnPacket
  <2>6. <<>> \in Seq(Byte)
    OBVIOUS
  <2> QED
    BY <1>7, <2>4, <2>5, <2>6 DEF ReturnPacket, peer
<1>8. CASE BadId \/ CleanClose \/ UnexpectedEof \/ ConnectionError
  <2> QED
    BY <1>8 DEF BadId, CleanClose, UnexpectedEof, ConnectionError, End, peer
<1>9. CASE UNCHANGED vars
  BY <1>9 DEF vars, peer
<1> QED
  BY <1>1, <1>2, <1>3, <1>4, <1>5, <1>6, <1>7, <1>8, <1>9, PutSomething DEF Next, ReadPacket

-----------------------------------------------------------------------------
(* The bytes of the items.                                                 *)

StartIn(marks, i) == IF i = 1 THEN 0 ELSE marks[i - 1]
Divided(items, marks, bytes) ==
    /\ Len(marks) = Len(items)
    /\ StartIn(marks, Len(items) + 1) = Len(bytes)
    /\ \A i \in 1 .. Len(items) :
          /\ StartIn(marks, i) < marks[i] /\ marks[i] <= Len(bytes)
          /\ StandsFor(SubSeq(bytes, StartIn(marks, i) + 1, marks[i]), items[i])

LEMMA ItemByItemMeans ==
  /\ ItemByItem <=> Divided(sent, ends, written)
  /\ ItemByItem' <=> Divided(sent', ends', written')
BY DEF ItemByItem, Divided, Start, StartIn, BytesOf

LEMMA StartType ==
  ASSUME NEW marks \in Seq(Nat), NEW k \in Nat, Len(marks) = k, NEW i \in 1 .. (k + 1)
  PROVE  StartIn(marks, i) \in Nat
<1>1. \A j \in 1 .. k : marks[j] \in Nat
  BY ElementOfSeq
<1>2. CASE i = 1
  BY <1>2 DEF StartIn
<1>3. CASE i # 1
  <2>1. i - 1 \in 1 .. k
    BY <1>3
  <2> QED
    BY <1>1, <1>3, <2>1 DEF StartIn
<1> QED
  BY <1>2, <1>3

LEMMA OneMoreItem ==
  ASSUME NEW items \in Seq(Items), NEW marks \in Seq(Nat), NEW bytes \in Seq(Byte),
         Divided(items, marks, bytes),
         NEW more \in Seq(Byte), NEW item \in Items, StandsFor(more, item)
  PROVE  Divided(Append(items, item), Append(marks, Len(bytes \o more)), bytes \o more)
<1> DEFINE k == Len(items)
           n == Len(bytes)
           all == bytes \o more
           m == Len(all)
           newItems == Append(items, item)
           newMarks == Append(marks, m)
<1>1. k \in Nat /\ n \in Nat /\ Len(marks) = k /\ Len(more) \in Nat /\ Len(more) >= 1
  BY LenProperties, SomeBytes DEF Divided
<1>2. /\ all \in Seq(Byte) /\ m = n + Len(more) /\ m \in Nat /\ m > n
      /\ \A j \in 1 .. n : all[j] = bytes[j]
  BY <1>1, ConcatProperties
<1>3. SubSeq(all, n + 1, m) = more
  BY Joined
<1> HIDE DEF all, m
<1>4. Len(newMarks) = k + 1 /\ (\A j \in 1 .. k : newMarks[j] = marks[j]) /\ newMarks[k + 1] = m
  <2>1. m \in Nat /\ Len(marks) = k
    BY <1>1, <1>2
  <2> HIDE DEF k, n
  <2>2. /\ Len(newMarks) = Len(marks) + 1 /\ newMarks[Len(marks) + 1] = m
        /\ \A j \in 1 .. Len(marks) : newMarks[j] = marks[j]
    BY <2>1, AppendProperties
  <2> QED
    BY <2>1, <2>2
<1>5. Len(newItems) = k + 1 /\ (\A j \in 1 .. k : newItems[j] = items[j]) /\ newItems[k + 1] = item
  BY <1>1, AppendProperties
<1>6. StartIn(marks, k + 1) = n
  BY DEF Divided
<1> HIDE DEF newMarks, newItems
<1>7. ASSUME NEW i \in 1 .. (k + 1)
      PROVE  StartIn(newMarks, i) = StartIn(marks, i) /\ StartIn(marks, i) \in Nat
  <2>1. StartIn(marks, i) \in Nat
    BY <1>1, StartType
  <2>2. CASE i = 1
    BY <2>1, <2>2 DEF StartIn
  <2>3. CASE i # 1
    <3>1. i - 1 \in 1 .. k
      BY <1>1, <2>3
    <3> QED
      BY <1>4, <2>1, <2>3, <3>1 DEF StartIn
  <2> QED
    BY <2>2, <2>3
<1>8. StartIn(newMarks, Len(newItems) + 1) = m
  <2>1. Len(newItems) + 1 # 1 /\ Len(newItems) + 1 - 1 = k + 1
    BY <1>1, <1>5
  <2> QED
    BY <1>4, <2>1 DEF StartIn
<1>9. ASSUME NEW i \in 1 .. k
      PROVE  /\ StartIn(newMarks, i) < newMarks[i] /\ newMarks[i] <= m
             /\ StandsFor(SubSeq(all, StartIn(newMarks, i) + 1, newMarks[i]), newItems[i])
  <2> DEFINE from == StartIn(marks, i)
             to == marks[i]
             a == SubSeq(all, from + 1, to)
             b == SubSeq(bytes, from + 1, to)
  <2>1. from < to /\ to <= n /\ StandsFor(b, items[i]) /\ from \in Nat /\ to \in Nat
    BY <1>1, <1>7, ElementOfSeq DEF Divided
  <2>2. StartIn(newMarks, i) = from /\ newMarks[i] = to /\ newItems[i] = items[i]
    BY <1>1, <1>4, <1>5, <1>7
  <2> HIDE DEF from, to
  <2>3. /\ a \in Seq(Byte) /\ Len(a) = to - from
        /\ \A j \in 1 .. (to - from) : a[j] = all[from + j]
    <3>1. from <= to /\ to <= Len(all)
      BY <1>1, <1>2, <2>1 DEF m
    <3> QED
      BY <1>2, <2>1, <3>1, Part
  <2>4. /\ b \in Seq(Byte) /\ Len(b) = to - from
        /\ \A j \in 1 .. (to - from) : b[j] = bytes[from + j]
    <3>1. from <= to
      BY <2>1
    <3> QED
      BY <2>1, <3>1, Part
  <2>5. ASSUME NEW j \in 1 .. (to - from) PROVE a[j] = b[j]
    <3>1. from + j \in 1 .. n
      BY <1>1, <2>1
    <3> HIDE DEF a, b
    <3> QED
      BY <1>2, <2>3, <2>4, <3>1
  <2>6. a = b
    <3> HIDE DEF a, b
    <3> QED
      BY <2>3, <2>4, <2>5, SeqEqual
  <2>7. to <= m
    BY <1>1, <1>2, <2>1
  <2> QED
    BY <2>1, <2>2, <2>6, <2>7
<1>10. /\ StartIn(newMarks, k + 1) < newMarks[k + 1] /\ newMarks[k + 1] <= m
       /\ StandsFor(SubSeq(all, StartIn(newMarks, k + 1) + 1, newMarks[k + 1]), newItems[k + 1])
  <2>1. StartIn(newMarks, k + 1) = n
    BY <1>1, <1>6, <1>7
  <2>2. newMarks[k + 1] = m /\ newItems[k + 1] = item
    BY <1>4, <1>5
  <2>3. n < m /\ m <= m /\ StandsFor(SubSeq(all, n + 1, m), item)
    <3>1. n < m /\ m <= m
      BY <1>1, <1>2
    <3>2. StandsFor(SubSeq(all, n + 1, m), item)
      BY <1>3
    <3> QED
      BY <3>1, <3>2
  <2> HIDE DEF k, n
  <2> QED
    BY <2>1, <2>2, <2>3
<1>11. \A i \in 1 .. (k + 1) : i \in 1 .. k \/ i = k + 1
  BY <1>1
<1>12. ASSUME NEW i \in 1 .. Len(newItems)
       PROVE  /\ StartIn(newMarks, i) < newMarks[i] /\ newMarks[i] <= m
              /\ StandsFor(SubSeq(all, StartIn(newMarks, i) + 1, newMarks[i]), newItems[i])
  <2>1. i \in 1 .. k \/ i = k + 1
    BY <1>5, <1>11
  <2> HIDE DEF k
  <2> QED
    BY <1>9, <1>10, <2>1
<1>13. Divided(newItems, newMarks, all)
  BY <1>4, <1>5, <1>8, <1>12 DEF Divided, m
<1> QED
  BY <1>13 DEF newItems, newMarks, all, m

LEMMA ItemStep == TypeOK /\ ItemByItem /\ [Next]_vars => ItemByItem'
<1> SUFFICES ASSUME TypeOK, ItemByItem, [Next]_vars PROVE ItemByItem'
  OBVIOUS
<1>0. Divided(sent, ends, written)
  BY ItemByItemMeans
<1>1. ASSUME NEW bytes \in Seq(Byte), NEW item \in Items, StandsFor(bytes, item), Put(bytes, item)
      PROVE  ItemByItem'
  <2>1. written' = written \o bytes /\ sent' = Append(sent, item) /\ ends' = Append(ends, Len(written \o bytes))
    BY <1>1 DEF Put
  <2>2. sent \in Seq(Items) /\ ends \in Seq(Nat) /\ written \in Seq(Byte)
    BY DEF TypeOK
  <2>3. Divided(Append(sent, item), Append(ends, Len(written \o bytes)), written \o bytes)
    BY <1>0, <1>1, <2>2, OneMoreItem
  <2>4. Divided(sent', ends', written')
    BY <2>1, <2>3
  <2> QED
    BY <2>4, ItemByItemMeans
<1>2. CASE Cut \/ ReadPacket \/ UNCHANGED vars
  <2>1. sent' = sent /\ ends' = ends /\ written' = written
    BY <1>2 DEF Cut, ReadPacket, ReadOn, VarIntTooLong, BadLength, ReadLength, ReadFrame, ReturnPacket,
                BadId, CleanClose, UnexpectedEof, ConnectionError, End, vars, peer
  <2> QED
    BY <1>0, <2>1, ItemByItemMeans
<1> QED
  BY <1>1, <1>2, PutSomething DEF Next

-----------------------------------------------------------------------------
(* Where reading stands.                                                   *)

LEMMA Beginning ==
  ASSUME NEW bytes \in Seq(Byte), NEW n \in Int, n <= Len(bytes)
  PROVE  LET front == SubSeq(bytes, 1, n)
         IN  front \in Seq(Byte) /\ Len(front) <= Len(bytes) /\ \A i \in 1 .. Len(front) : front[i] = bytes[i]
<1>1. CASE n \in Nat
  BY <1>1, FrontPart
<1>2. CASE n \notin Nat
  <2>1. \A i \in 1 .. n : bytes[i] \in Byte
    BY <1>2
  <2>2. SubSeq(bytes, 1, n) \in Seq(Byte) /\ Len(SubSeq(bytes, 1, n)) = 0
    BY <1>2, <2>1, SubSeqProperties
  <2> QED
    BY <2>2, LenProperties
<1> QED
  BY <1>1, <1>2

Parts(whole, c, h, f, w) == whole = c \o h \o f \o w

LEMMA FourParts ==
  ASSUME NEW c \in Seq(Byte), NEW h \in Seq(Byte), NEW f \in Seq(Byte), NEW w \in Seq(Byte),
         NEW whole, Parts(whole, c, h, f, w)
  PROVE  /\ whole \in Seq(Byte) /\ Len(whole) = Len(c) + Len(h) + Len(f) + Len(w)
         /\ \A i \in 1 .. Len(h) : whole[Len(c) + i] = h[i]
         /\ \A i \in 1 .. Len(f) : whole[Len(c) + Len(h) + i] = f[i]
         /\ \A i \in 1 .. Len(w) : whole[Len(c) + Len(h) + Len(f) + i] = w[i]
<1> DEFINE ch == c \o h
           chf == ch \o f
           all == chf \o w
<1>1. Len(c) \in Nat /\ Len(h) \in Nat /\ Len(f) \in Nat /\ Len(w) \in Nat
  BY LenProperties
<1>2. /\ ch \in Seq(Byte) /\ Len(ch) = Len(c) + Len(h)
      /\ \A i \in 1 .. (Len(c) + Len(h)) : ch[i] = IF i <= Len(c) THEN c[i] ELSE h[i - Len(c)]
  BY ConcatProperties
<1> HIDE DEF ch
<1>3. /\ chf \in Seq(Byte) /\ Len(chf) = Len(ch) + Len(f)
      /\ \A i \in 1 .. (Len(ch) + Len(f)) : chf[i] = IF i <= Len(ch) THEN ch[i] ELSE f[i - Len(ch)]
  <2>1. ch \in Seq(Byte)
    BY <1>2
  <2> QED
    BY <2>1, ConcatProperties
<1> HIDE DEF chf
<1>4. /\ all \in Seq(Byte) /\ Len(all) = Len(chf) + Len(w)
      /\ \A i \in 1 .. (Len(chf) + Len(w)) : all[i] = IF i <= Len(chf) THEN chf[i] ELSE w[i - Len(chf)]
  <2>1. chf \in Seq(Byte)
    BY <1>3
  <2> QED
    BY <2>1, ConcatProperties
<1> HIDE DEF all
<1>5. ASSUME NEW i \in 1 .. Len(h) PROVE all[Len(c) + i] = h[i]
  <2> DEFINE j == Len(c) + i
  <2>1. /\ j \in 1 .. (Len(c) + Len(h)) /\ j \in 1 .. (Len(ch) + Len(f)) /\ j \in 1 .. (Len(chf) + Len(w))
        /\ ~(j <= Len(c)) /\ j <= Len(ch) /\ j <= Len(chf) /\ j - Len(c) = i
    BY <1>1, <1>2, <1>3
  <2> HIDE DEF j
  <2>2. all[j] = h[i]
    BY <1>2, <1>3, <1>4, <2>1
  <2> QED
    BY <2>2 DEF j
<1>6. ASSUME NEW i \in 1 .. Len(f) PROVE all[Len(c) + Len(h) + i] = f[i]
  <2> DEFINE j == Len(c) + Len(h) + i
  <2>1. /\ j \in 1 .. (Len(ch) + Len(f)) /\ j \in 1 .. (Len(chf) + Len(w))
        /\ ~(j <= Len(ch)) /\ j <= Len(chf) /\ j - Len(ch) = i
    BY <1>1, <1>2, <1>3
  <2> HIDE DEF j
  <2>2. all[j] = f[i]
    BY <1>3, <1>4, <2>1
  <2> QED
    BY <2>2 DEF j
<1>7. ASSUME NEW i \in 1 .. Len(w) PROVE all[Len(c) + Len(h) + Len(f) + i] = w[i]
  <2> DEFINE j == Len(c) + Len(h) + Len(f) + i
  <2>1. j \in 1 .. (Len(chf) + Len(w)) /\ ~(j <= Len(chf)) /\ j - Len(chf) = i
    BY <1>1, <1>2, <1>3
  <2> HIDE DEF j
  <2>2. all[j] = w[i]
    BY <1>4, <2>1
  <2> QED
    BY <2>2 DEF j
<1>8. Len(all) = Len(c) + Len(h) + Len(f) + Len(w)
  BY <1>2, <1>3, <1>4
<1>9. all = whole
  BY DEF all, chf, ch, Parts
<1> QED
  BY <1>4, <1>5, <1>6, <1>7, <1>8, <1>9

\* The item that is being read.
Chunk == BytesOf(Len(received) + 1)
Item == sent[Len(received) + 1]

\* Between two items nothing has been read or waits; otherwise what has been
\* read is what the next item has.
LEMMA Standing ==
  ASSUME TypeOK, ItemByItem, NoByteLost, ended = "no"
  PROVE  /\ Len(received) = Len(sent) => head = <<>> /\ frame = <<>> /\ wire = <<>>
         /\ Len(received) < Len(sent) =>
               /\ Chunk \in Seq(Byte) /\ StandsFor(Chunk, Item)
               /\ Len(consumed) + Len(Chunk) = ends[Len(received) + 1]
               /\ Agree(head, Chunk, 0) /\ Agree(frame, Chunk, Len(head))
               /\ wire # <<>> /\ frame = <<>> => Agree(Heading, Chunk, 0)
<1> DEFINE k == Len(received)
           pos == Len(consumed)
           all == Arrived
<1>1. /\ consumed \in Seq(Byte) /\ head \in Seq(Byte) /\ frame \in Seq(Byte) /\ wire \in Seq(Byte)
      /\ written \in Seq(Byte) /\ lost \in Nat /\ ends \in Seq(Nat)
  BY DEF TypeOK
<1>2. /\ k \in Nat /\ Len(sent) \in Nat /\ pos \in Nat /\ Len(written) \in Nat
      /\ Len(head) \in Nat /\ Len(frame) \in Nat /\ Len(wire) \in Nat
  BY LenProperties DEF TypeOK
<1>3. consumed \o head \o frame \o wire = all /\ pos = Start(k + 1) /\ k <= Len(sent)
  BY DEF NoByteLost
<1>4. Len(all) <= Len(written) /\ \A i \in 1 .. Len(all) : all[i] = written[i]
  BY <1>1, <1>2, Beginning DEF Arrived
<1> HIDE DEF all
<1>5. /\ Len(all) = pos + Len(head) + Len(frame) + Len(wire)
      /\ \A i \in 1 .. Len(head) : all[pos + i] = head[i]
      /\ \A i \in 1 .. Len(frame) : all[pos + Len(head) + i] = frame[i]
      /\ \A i \in 1 .. Len(wire) : all[pos + Len(head) + Len(frame) + i] = wire[i]
  <2>1. Parts(all, consumed, head, frame, wire)
    BY <1>3 DEF Parts
  <2> QED
    BY <1>1, <2>1, FourParts
<1>6. CASE k = Len(sent)
  <2>1. pos = Len(written)
    BY <1>3, <1>6 DEF ItemByItem
  <2>2. Len(head) = 0 /\ Len(frame) = 0 /\ Len(wire) = 0
    BY <1>2, <1>4, <1>5, <2>1
  <2> QED
    BY <1>1, <1>2, <1>6, <2>2, EmptySeq
<1>7. CASE k < Len(sent)
  <2> DEFINE to == ends[k + 1]
             item == Chunk
  <2>1. k + 1 \in 1 .. Len(sent) /\ k + 1 \in 1 .. Len(ends)
    BY <1>2, <1>7 DEF ItemByItem
  <2>2. pos < to /\ to <= Len(written) /\ StandsFor(item, Item)
    BY <1>3, <2>1 DEF ItemByItem, Chunk, Item
  <2>3. item = SubSeq(written, pos + 1, to)
    BY <1>3 DEF Chunk, BytesOf
  <2>4. to \in Nat
    BY <1>1, <2>1, ElementOfSeq
  <2> HIDE DEF to, item
  <2>5. /\ item \in Seq(Byte) /\ Len(item) = to - pos
        /\ \A i \in 1 .. (to - pos) : item[i] = written[pos + i]
    BY <1>1, <1>2, <2>2, <2>3, <2>4, Part
  <2>6. ASSUME NEW i \in 1 .. Len(head), i <= Len(item) PROVE head[i] = item[i]
    <3>1. i \in 1 .. (to - pos) /\ pos + i \in 1 .. Len(all)
      BY <1>2, <1>5, <2>4, <2>5, <2>6
    <3> QED
      BY <1>4, <1>5, <2>5, <3>1
  <2>7. ASSUME NEW i \in 1 .. Len(frame), Len(head) + i <= Len(item) PROVE frame[i] = item[Len(head) + i]
    <3> DEFINE j == Len(head) + i
    <3>1. j \in 1 .. (to - pos) /\ pos + j \in 1 .. Len(all) /\ pos + j = pos + Len(head) + i
      BY <1>2, <1>5, <2>4, <2>5, <2>7
    <3>2. item[j] = written[pos + j] /\ all[pos + j] = written[pos + j]
      BY <1>4, <2>5, <3>1
    <3> QED
      BY <1>5, <3>1, <3>2
  <2>8. ASSUME wire # <<>>, frame = <<>> PROVE Agree(Heading, item, 0)
    <3> DEFINE n == Len(head) + 1
               h == Heading
    <3>1. Len(wire) >= 1 /\ Head(wire) = wire[1] /\ Head(wire) \in Byte
      BY <1>1, <1>2, <2>8, HeadTailProperties, EmptySeq
    <3>2. /\ h \in Seq(Byte) /\ Len(h) = Len(head) + 1
          /\ \A i \in 1 .. Len(head) : h[i] = head[i]
          /\ h[Len(head) + 1] = wire[1]
      BY <1>1, <3>1, AppendProperties DEF Heading
    <3> HIDE DEF h
    <3>3. ASSUME n <= Len(item) PROVE wire[1] = item[n]
      <4>1. /\ n \in 1 .. (to - pos) /\ pos + n \in 1 .. Len(all) /\ Len(frame) = 0
            /\ pos + n = pos + Len(head) + Len(frame) + 1 /\ 1 \in 1 .. Len(wire)
        BY <1>2, <1>5, <2>4, <2>5, <2>8, <3>1, <3>3, EmptySeq
      <4>2. all[pos + n] = wire[1]
        BY <1>5, <4>1
      <4>3. all[pos + n] = written[pos + n] /\ item[n] = written[pos + n]
        BY <1>4, <2>5, <4>1
      <4> QED
        BY <4>2, <4>3
    <3>4. ASSUME NEW i \in 1 .. Len(h), 0 + i <= Len(item) PROVE h[i] = item[0 + i]
      <4>1. 0 + i = i /\ (i \in 1 .. Len(head) \/ i = n)
        BY <1>2, <3>2
      <4> QED
        BY <2>6, <3>2, <3>3, <3>4, <4>1
    <3> QED
      BY <3>4 DEF Agree, h
  <2>9. Agree(head, item, 0)
    <3> SUFFICES ASSUME NEW i \in 1 .. Len(head), 0 + i <= Len(item) PROVE head[i] = item[0 + i]
      BY DEF Agree
    <3>1. 0 + i = i
      OBVIOUS
    <3> QED
      BY <2>6, <3>1
  <2>10. Agree(frame, item, Len(head))
    BY <2>7 DEF Agree
  <2>11. pos + Len(item) = to
    BY <1>2, <2>4, <2>5
  <2> QED
    BY <1>2, <1>7, <2>2, <2>5, <2>8, <2>9, <2>10, <2>11 DEF item, to
<1> QED
  BY <1>2, <1>3, <1>6, <1>7

-----------------------------------------------------------------------------
(* No byte gets lost.                                                      *)

\* A byte that moves from one part to the one before it.
LEMMA Moved ==
  ASSUME NEW front \in Seq(Byte), NEW part \in Seq(Byte), NEW rest \in Seq(Byte), rest # <<>>
  PROVE  front \o Append(part, Head(rest)) \o Tail(rest) = front \o part \o rest
<1> DEFINE x == Head(rest)
           t == Tail(rest)
<1>1. x \in Byte /\ t \in Seq(Byte) /\ <<x>> \in Seq(Byte)
  BY HeadTailProperties
<1>2. rest = <<x>> \o t
  <2> DEFINE u == <<x>> \o t
  <2>1. Len(<<x>>) = 1 /\ <<x>>[1] = x
    OBVIOUS
  <2>2. /\ u \in Seq(Byte) /\ Len(u) = 1 + Len(t)
        /\ \A i \in 1 .. (1 + Len(t)) : u[i] = IF i <= 1 THEN <<x>>[i] ELSE t[i - 1]
    BY <1>1, <2>1, ConcatProperties
  <2>3. /\ Len(rest) \in Nat /\ Len(rest) >= 1 /\ Len(t) = Len(rest) - 1 /\ x = rest[1]
        /\ \A i \in 1 .. Len(t) : t[i] = rest[i + 1]
    BY HeadTailProperties, LenProperties, EmptySeq
  <2> HIDE DEF u, x, t
  <2>4. ASSUME NEW i \in 1 .. Len(rest) PROVE rest[i] = u[i]
    <3>1. CASE i = 1
      BY <2>1, <2>2, <2>3, <3>1
    <3>2. CASE i # 1
      <4>1. i - 1 \in 1 .. Len(t) /\ i - 1 + 1 = i /\ i \in 1 .. (1 + Len(t)) /\ ~(i <= 1)
        BY <2>3, <3>2
      <4> QED
        BY <2>2, <2>3, <4>1
    <3> QED
      BY <3>1, <3>2
  <2>5. Len(rest) = Len(u)
    BY <2>2, <2>3
  <2>6. rest = u
    BY <2>2, <2>4, <2>5, SeqEqual
  <2> QED
    BY <2>6 DEF u
<1>3. Append(part, x) = part \o <<x>>
  BY <1>1, AppendIsConcat
<1> HIDE DEF x, t
<1>4. front \o (part \o <<x>>) = (front \o part) \o <<x>>
  BY <1>1, ConcatAssociative
<1>5. front \o part \in Seq(Byte)
  BY ConcatProperties
<1>6. ((front \o part) \o <<x>>) \o t = (front \o part) \o (<<x>> \o t)
  BY <1>1, <1>5, ConcatAssociative
<1> QED
  BY <1>2, <1>3, <1>4, <1>6 DEF x, t

\* The bytes that arrive when some at the end are dropped.
LEMMA Shortened ==
  ASSUME NEW front \in Seq(Byte), NEW rest \in Seq(Byte), NEW n \in 0 .. Len(rest)
  PROVE  front \o SubSeq(rest, 1, n) = SubSeq(front \o rest, 1, Len(front \o rest) - (Len(rest) - n))
<1> DEFINE all == front \o rest
           m == Len(front) + n
           a == front \o SubSeq(rest, 1, n)
           b == SubSeq(all, 1, m)
<1>1. /\ Len(front) \in Nat /\ Len(rest) \in Nat /\ n \in Nat /\ n <= Len(rest)
      /\ m \in Nat /\ Len(front) + Len(rest) - (Len(rest) - n) = m /\ m <= Len(front) + Len(rest)
  BY LenProperties
<1>2. /\ all \in Seq(Byte) /\ Len(all) = Len(front) + Len(rest)
      /\ \A i \in 1 .. (Len(front) + Len(rest)) : all[i] = IF i <= Len(front) THEN front[i] ELSE rest[i - Len(front)]
  BY ConcatProperties
<1>3. /\ SubSeq(rest, 1, n) \in Seq(Byte) /\ Len(SubSeq(rest, 1, n)) = n
      /\ \A i \in 1 .. n : SubSeq(rest, 1, n)[i] = rest[i]
  BY <1>1, FrontPart
<1>4. /\ a \in Seq(Byte) /\ Len(a) = m
      /\ \A i \in 1 .. m : a[i] = IF i <= Len(front) THEN front[i] ELSE SubSeq(rest, 1, n)[i - Len(front)]
  BY <1>3, ConcatProperties
<1> HIDE DEF all, m
<1>5. b \in Seq(Byte) /\ Len(b) = m /\ \A i \in 1 .. m : b[i] = all[i]
  <2>1. m <= Len(all)
    BY <1>1, <1>2
  <2> QED
    BY <1>1, <1>2, <2>1, FrontPart
<1> HIDE DEF a, b
<1>6. ASSUME NEW i \in 1 .. m PROVE a[i] = b[i]
  <2>1. i \in 1 .. (Len(front) + Len(rest))
    BY <1>1
  <2>2. CASE i <= Len(front)
    BY <1>2, <1>4, <1>5, <2>1, <2>2
  <2>3. CASE ~(i <= Len(front))
    <3>1. i - Len(front) \in 1 .. n
      BY <1>1, <2>3 DEF m
    <3> QED
      BY <1>2, <1>3, <1>4, <1>5, <2>1, <2>3, <3>1
  <2> QED
    BY <2>2, <2>3
<1>7. a = b
  BY <1>4, <1>5, <1>6, SeqEqual
<1>8. m = Len(all) - (Len(rest) - n)
  <2>1. Len(all) = Len(front) + Len(rest)
    BY <1>2
  <2> QED
    BY <1>1, <2>1
<1> QED
  BY <1>7, <1>8 DEF a, b, all

\* What is more than an item keeps the place where an earlier one begins.
LEMMA StartKept ==
  ASSUME NEW marks \in Seq(Nat), NEW m \in Nat, NEW i \in 1 .. (Len(marks) + 1)
  PROVE  StartIn(Append(marks, m), i) = StartIn(marks, i)
<1>1. Len(marks) \in Nat /\ \A j \in 1 .. Len(marks) : Append(marks, m)[j] = marks[j]
  BY AppendProperties, LenProperties
<1>2. CASE i = 1
  BY <1>2 DEF StartIn
<1>3. CASE i # 1
  <2>1. i - 1 \in 1 .. Len(marks)
    BY <1>1, <1>3
  <2> QED
    BY <1>1, <1>3, <2>1 DEF StartIn
<1> QED
  BY <1>2, <1>3

\* The item that has been read whole, and the packet that it is.
LEMMA WholeRead ==
  ASSUME TypeOK, ItemByItem, NoByteLost, Progress, ended = "no", need # Unknown, Len(frame) = need
  PROVE  /\ Len(received) < Len(sent)
         /\ IF Item = Unreadable THEN IdLengths = {}
            ELSE /\ Len(consumed) + Len(head) + Len(frame) = ends[Len(received) + 1]
                 /\ Reads(frame, Item)
<1>1. /\ head \in Seq(Byte) /\ frame \in Seq(Byte) /\ consumed \in Seq(Byte)
      /\ Complete(head) /\ Len(head) <= MaxVarIntBytes /\ Len(frame) = Value(head)
  BY DEF TypeOK, Progress
<1>2. /\ Len(received) \in Nat /\ Len(sent) \in Nat /\ Len(consumed) \in Nat
      /\ Len(head) \in Nat /\ Len(frame) \in Nat
  BY LenProperties DEF TypeOK
<1>3. Len(received) < Len(sent)
  <2>1. head # <<>> /\ Len(received) <= Len(sent)
    BY <1>1 DEF Complete, NoByteLost
  <2> QED
    BY <1>2, <2>1, Standing
<1>4. /\ Chunk \in Seq(Byte) /\ StandsFor(Chunk, Item)
      /\ Len(consumed) + Len(Chunk) = ends[Len(received) + 1]
      /\ Agree(head, Chunk, 0) /\ Agree(frame, Chunk, Len(head))
  BY <1>3, Standing
<1>5. Len(frame) <= MaxFrameLength
  BY <1>2, Constants DEF TypeOK
<1>6. IF Item = Unreadable THEN VarIntLengths(frame) = {}
      ELSE Len(head) + Len(frame) = Len(Chunk) /\ Reads(frame, Item)
  BY <1>1, <1>4, <1>5, FrameRead
<1>7. Len(consumed) + Len(head) + Len(frame) = Len(consumed) + (Len(head) + Len(frame))
  BY <1>2
<1> QED
  BY <1>3, <1>4, <1>6, <1>7 DEF IdLengths

LEMMA Fixed ==
  ASSUME TypeOK
  PROVE  /\ consumed \in Seq(Byte) /\ head \in Seq(Byte) /\ frame \in Seq(Byte) /\ wire \in Seq(Byte)
         /\ written \in Seq(Byte) /\ lost \in Nat /\ ends \in Seq(Nat)
         /\ Len(received) \in Nat /\ Len(sent) \in Nat /\ Len(consumed) \in Nat /\ Len(written) \in Nat
         /\ Len(head) \in Nat /\ Len(frame) \in Nat /\ Len(wire) \in Nat
BY LenProperties DEF TypeOK

LEMMA Whole ==
  ASSUME NEW bytes \in Seq(Byte)
  PROVE  SubSeq(bytes, 1, Len(bytes) - 0) = bytes
<1>1. /\ Len(bytes) \in Nat /\ Len(bytes) - 0 = Len(bytes)
      /\ SubSeq(bytes, 1, Len(bytes)) \in Seq(Byte) /\ Len(SubSeq(bytes, 1, Len(bytes))) = Len(bytes)
      /\ \A i \in 1 .. Len(bytes) : SubSeq(bytes, 1, Len(bytes))[i] = bytes[i]
  BY LenProperties, FrontPart
<1> DEFINE a == SubSeq(bytes, 1, Len(bytes))
<1> HIDE DEF a
<1>2. a = bytes
  BY <1>1, SeqEqual DEF a
<1> QED
  BY <1>1, <1>2 DEF a

LEMMA ByteStep == TypeOK /\ ItemByItem /\ NoByteLost /\ Progress /\ [Next]_vars => NoByteLost'
<1> SUFFICES ASSUME TypeOK, ItemByItem, NoByteLost, Progress, [Next]_vars PROVE NoByteLost'
  OBVIOUS
<1> DEFINE front == consumed \o head \o frame
<1>0. front \in Seq(Byte) /\ consumed \o head \in Seq(Byte)
  BY Fixed, ConcatProperties
<1>a. /\ cut = "no" => lost = 0
      /\ ended = "closed" => cut = "closed"
      /\ ended = "no" => front \o wire = SubSeq(written, 1, Len(written) - lost)
      /\ Len(received) <= Len(sent)
      /\ Len(consumed) = StartIn(ends, Len(received) + 1)
  BY DEF NoByteLost, Arrived, Start, StartIn
<1>b. ASSUME cut' = "no" => lost' = 0,
             ended' = "closed" => cut' = "closed",
             ended' = "no" => consumed' \o head' \o frame' \o wire' = SubSeq(written', 1, Len(written') - lost'),
             Len(received') <= Len(sent'),
             Len(consumed') = StartIn(ends', Len(received') + 1)
      PROVE  NoByteLost'
  BY <1>b DEF NoByteLost, Arrived, Start, StartIn
<1>1. ASSUME NEW bytes \in Seq(Byte), NEW item \in Items, Put(bytes, item) PROVE NoByteLost'
  <2>1. /\ cut = "no" /\ cut' = cut /\ lost' = lost /\ ended' = ended /\ received' = received
        /\ consumed' = consumed /\ head' = head /\ frame' = frame
        /\ wire' = wire \o bytes /\ written' = written \o bytes
        /\ sent' = Append(sent, item) /\ ends' = Append(ends, Len(written'))
    BY <1>1 DEF Put
  <2>2. written \o bytes \in Seq(Byte) /\ Len(written \o bytes) \in Nat
    BY Fixed, ConcatProperties, LenProperties
  <2>3. ASSUME ended = "no" PROVE front \o wire' = SubSeq(written', 1, Len(written') - lost')
    <3>1. lost = 0 /\ front \o wire = written
      BY <1>a, <2>1, <2>3, Fixed, Whole
    <3>2. front \o (wire \o bytes) = (front \o wire) \o bytes
      <4>1. front \in Seq(Byte) /\ wire \in Seq(Byte)
        BY <1>0, Fixed
      <4> HIDE DEF front
      <4> QED
        BY <4>1, ConcatAssociative
    <3>3. SubSeq(written \o bytes, 1, Len(written \o bytes) - 0) = written \o bytes
      BY <2>2, Whole
    <3> HIDE DEF front
    <3> QED
      BY <2>1, <3>1, <3>2, <3>3
  <2>4. Len(received') <= Len(sent')
    <3>1. Len(sent') = Len(sent) + 1
      BY <2>1, AppendProperties DEF TypeOK
    <3> QED
      BY <1>a, <2>1, <3>1, Fixed
  <2>5. Len(consumed') = StartIn(ends', Len(received') + 1)
    <3>1. Len(received) + 1 \in 1 .. (Len(ends) + 1)
      BY <1>a, Fixed DEF ItemByItem
    <3>2. StartIn(Append(ends, Len(written \o bytes)), Len(received) + 1) = StartIn(ends, Len(received) + 1)
      BY <2>2, <3>1, Fixed, StartKept
    <3> QED
      BY <1>a, <2>1, <3>2
  <2> QED
    BY <1>a, <1>b, <2>1, <2>3, <2>4, <2>5
<1>2. CASE Cut
  <2>1. /\ cut = "no" /\ cut' # "no" /\ ended' = ended /\ received' = received /\ sent' = sent
        /\ consumed' = consumed /\ head' = head /\ frame' = frame /\ written' = written /\ ends' = ends
    BY <1>2 DEF Cut
  <2>2. PICK n \in 0 .. Len(wire) : wire' = SubSeq(wire, 1, n) /\ lost' = Len(wire) - n
    BY <1>2 DEF Cut
  <2>3. ASSUME ended = "no" PROVE front \o wire' = SubSeq(written', 1, Len(written') - lost')
    <3>1. front \o wire = written
      BY <1>a, <2>1, <2>3, Fixed, Whole
    <3>2. front \o SubSeq(wire, 1, n) = SubSeq(front \o wire, 1, Len(front \o wire) - (Len(wire) - n))
      BY <1>0, Fixed, Shortened
    <3> HIDE DEF front
    <3> QED
      BY <2>1, <2>2, <3>1, <3>2
  <2> QED
    BY <1>a, <1>b, <2>1, <2>3
<1>3. CASE ReadOn \/ ReadLength
  <2>1. /\ wire # <<>> /\ wire' = Tail(wire) /\ head' = Append(head, Head(wire)) /\ need = Unknown
        /\ UNCHANGED <<cut, frame, received, ended, peer, consumed>>
    BY <1>3 DEF ReadOn, ReadLength, ReadsLength, Take, Heading
  <2>2. frame = <<>>
    BY <2>1 DEF Progress
  <2>3. consumed \o Append(head, Head(wire)) \o Tail(wire) = consumed \o head \o wire
    BY <2>1, Fixed, Moved
  <2>4. consumed \o head \o <<>> = consumed \o head
    BY <1>0, ConcatEmptySeq
  <2>5. consumed \o head' \o <<>> = consumed \o head'
    <3>1. head' \in Seq(Byte)
      BY <2>1, Fixed, HeadTailProperties, AppendProperties
    <3>2. consumed \o head' \in Seq(Byte)
      BY <3>1, Fixed, ConcatProperties
    <3> QED
      BY <3>2, ConcatEmptySeq
  <2>6. consumed' \o head' \o frame' \o wire' = front \o wire
    BY <2>1, <2>2, <2>3, <2>4, <2>5
  <2> QED
    BY <1>a, <1>b, <2>1, <2>6 DEF peer
<1>4. CASE ReadFrame
  <2>1. /\ wire # <<>> /\ wire' = Tail(wire) /\ frame' = Append(frame, Head(wire))
        /\ UNCHANGED <<cut, head, received, ended, peer, consumed>>
    BY <1>4 DEF ReadFrame, Take
  <2>2. (consumed \o head) \o Append(frame, Head(wire)) \o Tail(wire) = (consumed \o head) \o frame \o wire
    BY <1>0, <2>1, Fixed, Moved
  <2>3. consumed' \o head' \o frame' \o wire' = front \o wire
    BY <2>1, <2>2
  <2> QED
    BY <1>a, <1>b, <2>1, <2>3 DEF peer
<1>5. CASE ReturnPacket
  <2>1. /\ ended = "no" /\ Len(frame) = need /\ IdLengths # {}
        /\ consumed' = front /\ head' = <<>> /\ frame' = <<>>
        /\ UNCHANGED <<wire, cut, ended, sent, ends, written, lost>>
    BY <1>5 DEF ReturnPacket, peer
  <2>2. Len(received') = Len(received) + 1
    <3>1. PICK x : received' = Append(received, x)
      BY <1>5 DEF ReturnPacket
    <3> QED
      BY <1>5, <3>1, AppendProperties, TypeStep DEF TypeOK
  <2>3. need # Unknown
    BY <2>1, Fixed DEF Unknown
  <2>4. /\ Len(received) < Len(sent)
        /\ Len(consumed) + Len(head) + Len(frame) = ends[Len(received) + 1]
    BY <2>1, <2>3, WholeRead
  <2>5. Len(front) = Len(consumed) + Len(head) + Len(frame)
    BY <1>0, Fixed, ConcatProperties
  <2>6. consumed' \o head' \o frame' \o wire' = front \o wire
    <3>1. front \o <<>> = front
      BY <1>0, ConcatEmptySeq
    <3> HIDE DEF front
    <3> QED
      BY <2>1, <3>1
  <2>7. Len(received') <= Len(sent')
    BY <2>1, <2>2, <2>4, Fixed
  <2>8. Len(consumed') = StartIn(ends', Len(received') + 1)
    <3>1. StartIn(ends, Len(received) + 1 + 1) = ends[Len(received) + 1]
      BY Fixed DEF StartIn
    <3> HIDE DEF front
    <3> QED
      BY <2>1, <2>2, <2>4, <2>5, <3>1
  <2> HIDE DEF front
  <2> QED
    BY <1>a, <1>b, <2>1, <2>6, <2>7, <2>8
<1>6. CASE VarIntTooLong \/ BadLength \/ BadId \/ UnexpectedEof \/ ConnectionError
  <2>1. /\ ended' = "failed"
        /\ UNCHANGED <<cut, received, peer, consumed>>
    BY <1>6 DEF VarIntTooLong, BadLength, BadId, UnexpectedEof, ConnectionError, End
  <2> QED
    BY <1>a, <1>b, <2>1 DEF peer
<1>7. CASE CleanClose
  <2>1. /\ ended' = "closed" /\ cut = "closed"
        /\ UNCHANGED <<cut, received, peer, consumed>>
    BY <1>7 DEF CleanClose, End
  <2> QED
    BY <1>a, <1>b, <2>1 DEF peer
<1>8. CASE UNCHANGED vars
  BY <1>a, <1>b, <1>8 DEF vars, peer
<1> QED
  BY <1>1, <1>2, <1>3, <1>4, <1>5, <1>6, <1>7, <1>8, PutSomething DEF Next, ReadPacket

LEMMA ProgressStep == TypeOK /\ Progress /\ [Next]_vars => Progress'
<1> SUFFICES ASSUME TypeOK, Progress, [Next]_vars PROVE Progress'
  OBVIOUS
<1>1. ASSUME UNCHANGED <<head, frame, need>> PROVE Progress'
  BY <1>1 DEF Progress
<1>2. CASE ReadOn
  <2>1. /\ wire # <<>> /\ head' = Append(head, Head(wire)) /\ Head(wire).more /\ need = Unknown
        /\ Len(head') < MaxVarIntBytes /\ need' = need /\ frame' = frame
    BY <1>2 DEF ReadOn, ReadsLength, Take, Heading
  <2>2. /\ Len(head) \in Nat /\ Len(head') = Len(head) + 1
        /\ \A i \in 1 .. Len(head) : head'[i] = head[i]
        /\ head'[Len(head) + 1] = Head(wire)
    BY <2>1, Fixed, HeadTailProperties, AppendProperties
  <2>3. frame = <<>> /\ \A i \in 1 .. Len(head) : head[i].more
    BY <2>1, Fixed DEF Progress
  <2>4. head' \in Seq(Byte)
    BY <2>1, Fixed, HeadTailProperties, AppendProperties
  <2>5. \A i \in 1 .. Len(head') : i \in 1 .. Len(head) \/ i = Len(head) + 1
    BY <2>2
  <2>6. \A i \in DOMAIN head' : head'[i].more
    BY <2>1, <2>2, <2>3, <2>4, <2>5
  <2> QED
    BY <2>1, <2>3, <2>6 DEF Progress
<1>3. CASE ReadLength
  <2>1. /\ need = Unknown /\ head' = Heading /\ need' = Value(Heading) /\ Complete(Heading)
        /\ Value(Heading) \in 0 .. MaxFrameLength /\ frame' = frame /\ wire # <<>>
    BY <1>3 DEF ReadLength, ReadsLength, Take
  <2>2. frame = <<>> /\ Len(head) < MaxVarIntBytes
    BY <2>1 DEF Progress
  <2>3. Len(Heading) = Len(head) + 1
    BY <2>1, Fixed, HeadTailProperties, AppendProperties DEF Heading
  <2>4. Len(Heading) <= MaxVarIntBytes
    BY <2>2, <2>3, Fixed, Constants
  <2>5. need' # Unknown /\ Len(frame') <= need'
    BY <2>1, <2>2, Constants DEF Unknown
  <2> HIDE DEF Complete, Value
  <2>6. Complete(head') /\ Len(head') <= MaxVarIntBytes /\ Value(head') = need'
    BY <2>1, <2>4
  <2> QED
    BY <2>5, <2>6 DEF Progress
<1>4. CASE ReadFrame
  <2>1. /\ wire # <<>> /\ frame' = Append(frame, Head(wire)) /\ Len(frame) < need
        /\ head' = head /\ need' = need
    BY <1>4 DEF ReadFrame, Take
  <2>2. Len(frame') = Len(frame) + 1
    BY <2>1, Fixed, HeadTailProperties, AppendProperties
  <2>3. need # Unknown
    BY <2>1, Fixed DEF Unknown
  <2>4. Len(frame') <= need
    BY <2>1, <2>2, <2>3, Fixed, Constants DEF TypeOK
  <2> QED
    BY <2>1, <2>3, <2>4 DEF Progress
<1>5. CASE ReturnPacket
  <2>1. head' = <<>> /\ frame' = <<>> /\ need' = Unknown
    BY <1>5 DEF ReturnPacket
  <2>2. Len(<<>>) < MaxVarIntBytes
    BY RoomForAByte, Constants
  <2> QED
    BY <2>1, <2>2 DEF Progress
<1>6. ASSUME NEW bytes \in Seq(Byte), NEW item \in Items, Put(bytes, item) PROVE Progress'
  BY <1>1, <1>6 DEF Put
<1>7. CASE \/ Cut \/ VarIntTooLong \/ BadLength \/ BadId
           \/ CleanClose \/ UnexpectedEof \/ ConnectionError \/ UNCHANGED vars
  BY <1>1, <1>7 DEF Cut, VarIntTooLong, BadLength, BadId, CleanClose, UnexpectedEof, ConnectionError, End,
                    vars, peer
<1> QED
  BY <1>2, <1>3, <1>4, <1>5, <1>6, <1>7, PutSomething DEF Next, ReadPacket

LEMMA EndStep == TypeOK /\ NoByteLost /\ Progress /\ CleanEnd /\ [Next]_vars => CleanEnd'
<1> SUFFICES ASSUME TypeOK, NoByteLost, Progress, CleanEnd, [Next]_vars, ended' = "closed"
             PROVE  consumed' = Arrived'
  BY DEF CleanEnd
<1>1. CASE CleanClose
  <2>1. /\ ended = "no" /\ head = <<>> /\ wire = <<>> /\ need = Unknown
        /\ consumed' = consumed /\ written' = written /\ lost' = lost
    BY <1>1 DEF CleanClose, ReadsLength, End, peer
  <2>2. frame = <<>> /\ consumed \o head \o frame \o wire = Arrived
    BY <2>1 DEF Progress, NoByteLost
  <2>3. consumed \o <<>> \o <<>> \o <<>> = consumed
    BY Fixed, ConcatEmptySeq
  <2>4. Arrived' = Arrived
    BY <2>1 DEF Arrived
  <2> QED
    BY <2>1, <2>2, <2>3, <2>4
<1>2. CASE ended = "closed"
  <2>1. cut = "closed"
    BY <1>2 DEF NoByteLost
  <2>2. consumed' = consumed /\ written' = written /\ lost' = lost
    <3>1. ASSUME NEW bytes \in Seq(Byte), NEW item \in Items, Put(bytes, item) PROVE FALSE
      BY <2>1, <3>1 DEF Put
    <3>2. ~Cut /\ ~ReadPacket
      BY <1>2, <2>1 DEF Cut, ReadPacket, ReadOn, VarIntTooLong, BadLength, ReadLength, ReadFrame, ReturnPacket,
                        BadId, CleanClose, UnexpectedEof, ConnectionError, ReadsLength
    <3> QED
      BY <3>1, <3>2, PutSomething DEF Next, vars, peer
  <2> QED
    BY <1>2, <2>2 DEF CleanEnd, Arrived
<1>3. CASE ended # "closed" /\ ~CleanClose
  <2>1. ASSUME NEW bytes \in Seq(Byte), NEW item \in Items, Put(bytes, item) PROVE FALSE
    BY <1>3, <2>1 DEF Put
  <2>2. ~Cut /\ ~ReadPacket /\ ~UNCHANGED vars
    BY <1>3 DEF Cut, ReadPacket, ReadOn, VarIntTooLong, BadLength, ReadLength, ReadFrame, ReturnPacket,
                BadId, UnexpectedEof, ConnectionError, End, vars, peer
  <2> QED
    BY <2>1, <2>2, PutSomething DEF Next
<1> QED
  BY <1>1, <1>2, <1>3

-----------------------------------------------------------------------------
(* The theorems.                                                           *)

LEMMA CodecInit == Init => CodecInv
<1> SUFFICES ASSUME Init PROVE CodecInv
  OBVIOUS
<1>1. TypeOK
  BY TypeInit
<1>2. Len(<<>>) = 0
  OBVIOUS
<1>3. ItemByItem
  BY <1>2 DEF Init, ItemByItem, Start
<1>4. <<>> \o <<>> \o <<>> \o <<>> = <<>> /\ SubSeq(<<>>, 1, Len(<<>>) - 0) = <<>>
  BY EmptySeq, ConcatEmptySeq, Whole
<1>5. NoByteLost
  BY <1>2, <1>4 DEF Init, NoByteLost, Arrived, Start
<1>6. Progress
  BY <1>2, RoomForAByte, Constants DEF Init, Progress
<1>7. CleanEnd
  BY DEF Init, CleanEnd
<1> QED
  BY <1>1, <1>3, <1>5, <1>6, <1>7 DEF CodecInv

\* Whatever is written and wherever the connection is cut, no byte gets lost on
\* the way to the packets, and reading stands where the bytes read say
\* (read_packet, read_varint_async).
THEOREM CodecInvariance == Spec => []CodecInv
<1>1. CodecInv /\ [Next]_vars => CodecInv'
  BY TypeStep, ItemStep, ByteStep, ProgressStep, EndStep DEF CodecInv
<1> QED
  BY CodecInit, <1>1, PTL DEF Spec

\* The end of the stream counts as clean only between two packets.
THEOREM EndsClean == Spec => []CleanEnd
<1>1. CodecInv => CleanEnd
  BY DEF CodecInv
<1> QED
  BY <1>1, CodecInvariance, PTL

-----------------------------------------------------------------------------
(* The refinement of the packet stream.                                    *)

\* A packet read is the next one of the peer.
LEMMA ReceivesNext ==
  ASSUME CodecInv, ReturnPacket
  PROVE  Stream!Receive
<1> USE DEF CodecInv
<1>1. ended = "no" /\ Len(frame) = need /\ need # Unknown
  BY Fixed DEF ReturnPacket, Unknown
<1>2. PICK n \in IdLengths :
          received' = Append(received, [id |-> Value(SubSeq(frame, 1, n)),
                                        payload |-> SubSeq(frame, n + 1, Len(frame))])
  BY DEF ReturnPacket
<1>3. Len(received) < Len(sent) /\ Item # Unreadable /\ Reads(frame, Item)
  BY <1>1, <1>2, WholeRead
<1>4. PICK i \in VarIntLengths(frame) :
        Item = [id |-> Value(SubSeq(frame, 1, i)), payload |-> SubSeq(frame, i + 1, Len(frame))]
  BY <1>3 DEF Reads
<1>5. i = n
  BY <1>2, Fixed, OneFront DEF IdLengths
<1>6. received' = Append(received, Item)
  BY <1>2, <1>4, <1>5
<1>7. UNCHANGED <<sent, cut, ended>>
  BY DEF ReturnPacket, peer
<1> QED
  BY <1>1, <1>3, <1>6, <1>7 DEF Stream!Receive, Stream!Pending, Stream!Following, Item

\* Reading fails only at what is no packet, or with the connection.
LEMMA FailsRightly ==
  ASSUME CodecInv, VarIntTooLong \/ BadLength \/ BadId \/ UnexpectedEof \/ ConnectionError
  PROVE  Stream!Fail
<1> USE DEF CodecInv
<1>1. /\ ended = "no" /\ ended' = "failed" /\ UNCHANGED <<sent, received, cut>>
  BY DEF VarIntTooLong, BadLength, BadId, UnexpectedEof, ConnectionError, ReadsLength, End, peer
<1>2. Len(received) < Len(sent) \/ (head = <<>> /\ frame = <<>> /\ wire = <<>>)
  <2>1. Len(received) = Len(sent) => head = <<>> /\ frame = <<>> /\ wire = <<>>
    BY <1>1, Standing
  <2>2. Len(received) <= Len(sent) /\ Len(received) \in Nat /\ Len(sent) \in Nat
    BY Fixed DEF NoByteLost
  <2> QED
    BY <2>1, <2>2
<1>3. CASE VarIntTooLong \/ BadLength
  <2>1. /\ wire # <<>> /\ need = Unknown /\ frame = <<>>
        /\ Len(head) < MaxVarIntBytes /\ \A i \in 1 .. Len(head) : head[i].more
    BY <1>3, Fixed DEF VarIntTooLong, BadLength, ReadsLength, Take, Progress
  <2>2. Len(received) < Len(sent)
    BY <1>2, <2>1
  <2>3. Chunk \in Seq(Byte) /\ StandsFor(Chunk, Item) /\ Agree(Heading, Chunk, 0)
    BY <1>1, <2>1, <2>2, Standing
  <2>4. /\ Heading \in Seq(Byte) /\ Len(Heading) = Len(head) + 1
        /\ \A i \in 1 .. Len(head) : Heading[i] = head[i]
        /\ Heading[Len(head) + 1] = Head(wire)
    BY <2>1, Fixed, HeadTailProperties, AppendProperties DEF Heading
  <2>5. CASE VarIntTooLong
    <3>1. Head(wire).more /\ Len(Heading) = MaxVarIntBytes
      BY <2>5 DEF VarIntTooLong
    <3>2. \A i \in 1 .. Len(Heading) : Heading[i].more
      <4>1. \A i \in 1 .. Len(Heading) : i \in 1 .. Len(head) \/ i = Len(head) + 1
        BY <2>4, Fixed
      <4> QED
        BY <2>1, <2>4, <3>1, <4>1
    <3>3. Item = Unreadable
      <4> HIDE DEF Heading
      <4> QED
        BY <2>3, <2>4, <3>1, <3>2, LengthEnds
    <3> QED
      BY <1>1, <2>2, <3>3 DEF Stream!Fail, Stream!Pending, Stream!Following, Item
  <2>6. CASE BadLength
    <3>1. Complete(Heading) /\ Value(Heading) \notin 0 .. MaxFrameLength
      BY <2>6 DEF BadLength
    <3>2. Len(Heading) <= MaxVarIntBytes
      BY <2>1, <2>4, Fixed, Constants
    <3>3. ASSUME Item # Unreadable PROVE FALSE
      <4> DEFINE rest == SubSeq(Chunk, Len(Heading) + 1, Len(Chunk))
      <4>1. Len(Heading) <= Len(Chunk) /\ Len(rest) = Value(Heading) /\ Value(Heading) <= MaxFrameLength
        BY <2>3, <2>4, <3>1, <3>2, <3>3, LengthRead
      <4>2. Len(rest) \in Nat
        <5>1. Len(Heading) \in Nat /\ Len(Chunk) \in Nat
          BY <2>3, <2>4, LenProperties
        <5>2. rest \in Seq(Byte)
          BY <2>3, <4>1, <5>1, Part
        <5> QED
          BY <5>2, LenProperties
      <4> HIDE DEF rest
      <4> QED
        BY <3>1, <4>1, <4>2, Constants
    <3> QED
      BY <1>1, <2>2, <3>3 DEF Stream!Fail, Stream!Pending, Stream!Following, Item
  <2> QED
    BY <1>3, <2>5, <2>6
<1>4. CASE BadId
  <2>1. Len(frame) = need /\ need # Unknown /\ IdLengths = {}
    BY <1>4, Fixed DEF BadId, Unknown
  <2>2. Len(received) < Len(sent) /\ (Item # Unreadable => Reads(frame, Item))
    BY <1>1, <2>1, WholeRead
  <2>3. Item = Unreadable
    BY <2>1, <2>2 DEF Reads, IdLengths
  <2> QED
    BY <1>1, <2>2, <2>3 DEF Stream!Fail, Stream!Pending, Stream!Following, Item
<1>5. CASE UnexpectedEof
  <2>1. cut = "closed" /\ head # <<>>
    BY <1>5 DEF UnexpectedEof, Progress, Complete
  <2>2. Len(received) < Len(sent)
    BY <1>2, <2>1
  <2> QED
    BY <1>1, <2>1, <2>2 DEF Stream!Fail, Stream!Pending
<1>6. CASE ConnectionError
  BY <1>1, <1>6 DEF ConnectionError, Stream!Fail
<1> QED
  BY <1>3, <1>4, <1>5, <1>6

\* The packet layer keeps its promise to a session: the packets of the peer,
\* whole and in order, None only when the connection was closed, and an error
\* only at what is no packet, within a packet or for a connection that failed
\* (write_packet, read_packet).
THEOREM ImplementsPacketStream == Spec => Stream!InOrder
<1>1. Init => Stream!Init
  BY DEF Init, Stream!Init
<1>2. CodecInv /\ [Next]_vars => [Stream!Next]_(Stream!vars)
  <2> SUFFICES ASSUME CodecInv, [Next]_vars PROVE Stream!Next \/ UNCHANGED Stream!vars
    OBVIOUS
  <2>1. ASSUME NEW bytes \in Seq(Byte), NEW item \in Items, Put(bytes, item) PROVE Stream!Next
    BY <2>1 DEF Put, Stream!Next, Stream!Send
  <2>2. CASE Cut
    BY <2>2 DEF Cut, Stream!Next, Stream!Break
  <2>3. CASE ReadOn \/ ReadLength \/ ReadFrame \/ UNCHANGED vars
    BY <2>3 DEF ReadOn, ReadLength, ReadFrame, vars, peer, Stream!vars
  <2>4. CASE ReturnPacket
    BY <2>4, ReceivesNext DEF Stream!Next, Stream!Read
  <2>5. CASE VarIntTooLong \/ BadLength \/ BadId \/ UnexpectedEof \/ ConnectionError
    BY <2>5, FailsRightly DEF Stream!Next, Stream!Read
  <2>6. CASE CleanClose
    BY <2>6 DEF CleanClose, ReadsLength, End, peer, Stream!Next, Stream!Read, Stream!Close
  <2> QED
    BY <2>1, <2>2, <2>3, <2>4, <2>5, <2>6, PutSomething DEF Next, ReadPacket
<1> QED
  BY <1>1, <1>2, CodecInvariance, PTL DEF Spec, Stream!InOrder
=============================================================================
