----------------------------- MODULE SrvProofs -----------------------------
(***************************************************************************)
(* The record that is chosen from an SRV answer, for all answers and turns.*)
(***************************************************************************)
EXTENDS Srv, FiniteSetsExt, FiniteSetTheorems, TLAPS

-----------------------------------------------------------------------------
(* Numbers and orders.                                                     *)

LEMMA SequenceDomain ==
  ASSUME NEW seq, IsSequence(seq)
  PROVE  /\ Len(seq) \in Nat /\ DOMAIN seq = 1 .. Len(seq)
         /\ seq # <<>> => Len(seq) > 0
BY DEF IsSequence

LEMMA DivMod ==
  ASSUME NEW turn \in Nat, NEW n \in Nat \ {0}
  PROVE  /\ turn % n \in 0 .. (n - 1) /\ turn \div n \in Nat
         /\ turn = n * (turn \div n) + (turn % n)
OBVIOUS

\* A set of natural numbers has a least one.
LEMMA LeastElement ==
  ASSUME NEW S, S \subseteq Nat, S # {}
  PROVE  \E m \in S : \A n \in S : m <= n
<1> DEFINE T == {0 .. n : n \in S}
<1>1. T \subseteq FiniteSubsetsOf(Nat)
  <2> SUFFICES ASSUME NEW n \in S PROVE (0 .. n) \in FiniteSubsetsOf(Nat)
    OBVIOUS
  <2>1. n \in Nat /\ (0 .. n) \subseteq Nat
    OBVIOUS
  <2>2. IsFiniteSet(0 .. n)
    BY <2>1, FS_Interval
  <2> QED
    BY <2>1, <2>2 DEF FiniteSubsetsOf
<1>2. T # {}
  OBVIOUS
<1>3. PICK x \in T : \A y \in T : <<y, x>> \notin StrictSubsetOrdering(Nat)
  <2> HIDE DEF T
  <2> QED
    BY <1>1, <1>2, FS_StrictSubsetOrderingWellFounded, WFMin
<1>4. PICK m \in S : x = 0 .. m
  OBVIOUS
<1>5. ASSUME NEW n \in S, ~(m <= n) PROVE FALSE
  <2>1. n \in Nat /\ m \in Nat /\ n < m
    BY <1>5
  <2>2. (0 .. n) \in T /\ (0 .. n) \subseteq (0 .. m) /\ m \in 0 .. m /\ m \notin 0 .. n
    BY <2>1
  <2>3. <<0 .. n, 0 .. m>> \in StrictSubsetOrdering(Nat)
    BY <2>1, <2>2 DEF StrictSubsetOrdering
  <2> QED
    BY <1>3, <1>4, <2>2, <2>3
<1> QED
  BY <1>5

\* The first and the last of some records by an order of numbers.
LEMMA FirstByKey ==
  ASSUME NEW S, NEW key, \A i \in S : key[i] \in Nat, S # {}
  PROVE  \E m \in S : \A i \in S : key[m] <= key[i]
<1> DEFINE K == {key[i] : i \in S}
<1>1. K \subseteq Nat /\ K # {}
  OBVIOUS
<1>2. PICK k \in K : \A other \in K : k <= other
  BY <1>1, LeastElement
<1> QED
  BY <1>2

LEMMA LastByKey ==
  ASSUME NEW S, NEW key, NEW bound \in Nat, \A i \in S : key[i] \in 0 .. bound, S # {}
  PROVE  \E m \in S : \A i \in S : key[i] <= key[m]
<1> DEFINE rest == [i \in S |-> bound - key[i]]
<1>1. \A i \in S : rest[i] \in Nat
  OBVIOUS
<1>2. PICK m \in S : \A i \in S : rest[m] <= rest[i]
  <2> HIDE DEF rest
  <2> QED
    BY <1>1, FirstByKey
<1> QED
  BY <1>2

\* Some record has each rank.
LEMMA RankFound ==
  ASSUME NEW S, IsFiniteSet(S), NEW key, NEW bound \in Nat, \A i \in S : key[i] \in 0 .. bound,
         \A i, j \in S : key[i] = key[j] => i = j,
         NEW k \in 1 .. Cardinality(S)
  PROVE  \E i \in S : Cardinality({j \in S : key[j] <= key[i]}) = k
<1> DEFINE UpTo(i) == {j \in S : key[j] <= key[i]}
           R == {i \in S : Cardinality(UpTo(i)) >= k}
<1>0. \A i \in S : key[i] \in Nat
  OBVIOUS
<1>1. Cardinality(S) \in Nat /\ S # {}
  BY FS_CardinalityType, FS_EmptySet
<1>2. \A i \in S : IsFiniteSet(UpTo(i)) /\ Cardinality(UpTo(i)) \in Nat
  BY FS_Subset, FS_CardinalityType
<1>3. R # {}
  <2>1. PICK m \in S : \A i \in S : key[i] <= key[m]
    BY <1>1, LastByKey
  <2>2. UpTo(m) = S
    BY <2>1
  <2> QED
    BY <2>2
<1>4. PICK i \in R : \A j \in R : key[i] <= key[j]
  <2>1. \A j \in R : key[j] \in Nat
    BY <1>0
  <2> HIDE DEF R
  <2> QED
    BY <1>3, <2>1, FirstByKey
<1>5. ASSUME Cardinality(UpTo(i)) > k PROVE FALSE
  <2> DEFINE rest == UpTo(i) \ {i}
  <2>1. IsFiniteSet(rest) /\ Cardinality(rest) = Cardinality(UpTo(i)) - 1
    <3>1. i \in UpTo(i)
      BY <1>0
    <3> QED
      BY <1>2, <3>1, FS_RemoveElement
  <2>2. Cardinality(rest) >= k /\ rest # {}
    BY <1>2, <1>5, <2>1, FS_EmptySet
  <2>3. PICK p \in rest : \A j \in rest : key[j] <= key[p]
    <3>1. \A j \in rest : key[j] \in 0 .. bound
      OBVIOUS
    <3> HIDE DEF rest
    <3> QED
      BY <2>2, <3>1, LastByKey
  <2>4. UpTo(p) = rest
    BY <1>0, <2>3
  <2>5. p \in R /\ key[p] <= key[i] /\ key[p] # key[i]
    BY <2>2, <2>4
  <2> QED
    BY <1>0, <1>4, <2>5
<1>6. Cardinality(UpTo(i)) = k
  BY <1>2, <1>5
<1> QED
  BY <1>6

-----------------------------------------------------------------------------
(* Weights.                                                                *)

LEMMA UnitsOf ==
  ASSUME NEW x, NEW w \in Nat
  PROVE  IsFiniteSet({x} \X (1 .. w)) /\ Cardinality({x} \X (1 .. w)) = w
<1>1. IsFiniteSet({x}) /\ Cardinality({x}) = 1
  BY FS_Singleton
<1>2. IsFiniteSet(1 .. w) /\ Cardinality(1 .. w) = IF 1 > w THEN 0 ELSE w - 1 + 1
  <2>1. 1 \in Int /\ w \in Int
    OBVIOUS
  <2> QED
    BY <2>1, FS_Interval
<1>3. Cardinality(1 .. w) = w
  BY <1>2
<1> DEFINE one == {x}
           all == 1 .. w
<1>4. IsFiniteSet(one \X all) /\ Cardinality(one \X all) = 1 * w
  <2> HIDE DEF one, all
  <2>1. IsFiniteSet(one) /\ IsFiniteSet(all) /\ Cardinality(one) = 1 /\ Cardinality(all) = w
    BY <1>1, <1>2, <1>3 DEF one, all
  <2> QED
    BY <2>1, FS_Product
<1>5. 1 * w = w
  OBVIOUS
<1> QED
  BY <1>4, <1>5, Zenon

LEMMA WeightIsNat ==
  ASSUME NEW answer, NEW R, IsFiniteSet(R), \A i \in R : answer[i].weight \in Nat
  PROVE  /\ IsFiniteSet(UNION {{i} \X (1 .. answer[i].weight) : i \in R})
         /\ Weight(answer, R) \in Nat
<1> DEFINE Units(i) == {i} \X (1 .. answer[i].weight)
           K == {Units(i) : i \in R}
<1>1. \A i \in R : IsFiniteSet(Units(i))
  BY UnitsOf
<1>2. IsFiniteSet(K)
  <2> HIDE DEF Units
  <2> DEFINE unit == [i \in R |-> Units(i)]
  <2>1. unit \in Surjection(R, K)
    BY DEF Surjection
  <2> QED
    BY <2>1, FS_Surjection
<1>3. IsFiniteSet(UNION K)
  <2> HIDE DEF Units
  <2>1. \A T \in K : IsFiniteSet(T)
    BY <1>1
  <2> HIDE DEF K
  <2> QED
    BY <1>2, <2>1, FS_UNION
<1> QED
  BY <1>3, FS_CardinalityType DEF Weight

LEMMA WeightOfMore ==
  ASSUME NEW answer, NEW S, IsFiniteSet(S), \A i \in S : answer[i].weight \in Nat, NEW R \in SUBSET S
  PROVE  Weight(answer, R) <= Weight(answer, S)
<1> DEFINE Units(T) == UNION {{i} \X (1 .. answer[i].weight) : i \in T}
<1>1. IsFiniteSet(Units(S))
  BY WeightIsNat
<1>2. Units(R) \subseteq Units(S)
  OBVIOUS
<1> QED
  BY <1>1, <1>2, FS_Subset DEF Weight

LEMMA WeightOfOneMore ==
  ASSUME NEW answer, NEW S, IsFiniteSet(S), \A i \in S : answer[i].weight \in Nat,
         NEW x \in S
  PROVE  Weight(answer, S) = Weight(answer, S \ {x}) + answer[x].weight
<1> DEFINE Units(T) == UNION {{i} \X (1 .. answer[i].weight) : i \in T}
           own == {x} \X (1 .. answer[x].weight)
           rest == S \ {x}
<1>1. IsFiniteSet(rest)
  BY FS_RemoveElement
<1>2. IsFiniteSet(Units(rest)) /\ Cardinality(Units(rest)) \in Nat
  BY <1>1, WeightIsNat, FS_CardinalityType
<1>3. IsFiniteSet(own) /\ Cardinality(own) = answer[x].weight
  BY UnitsOf
<1>4. Units(S) = Units(rest) \cup own
  OBVIOUS
<1>5. Units(rest) \cap own = {}
  OBVIOUS
<1> HIDE DEF Units, own, rest
<1>6. Cardinality(Units(S)) = Cardinality(Units(rest)) + Cardinality(own) - Cardinality(Units(rest) \cap own)
  BY <1>2, <1>3, <1>4, FS_Union
<1>7. Cardinality(Units(S)) = Cardinality(Units(rest)) + answer[x].weight
  BY <1>2, <1>3, <1>5, <1>6, FS_EmptySet
<1> QED
  BY <1>7 DEF Units, rest, Weight

-----------------------------------------------------------------------------
(* The record that is chosen.                                              *)

\* The order of the records, by numbers.
Key(answer) == [i \in DOMAIN answer |-> IF answer[i].weight = 0 THEN i ELSE Len(answer) + i]

LEMMA KeyOrders ==
  ASSUME NEW answer, WellWeighed(answer)
  PROVE  /\ \A i \in DOMAIN answer : Key(answer)[i] \in 0 .. Len(answer) + Len(answer)
         /\ \A i, j \in DOMAIN answer : NotAfter(answer, i, j) <=> Key(answer)[i] <= Key(answer)[j]
         /\ \A i, j \in DOMAIN answer : Key(answer)[i] = Key(answer)[j] => i = j
<1> DEFINE n == Len(answer)
           key == Key(answer)
           light(i) == answer[i].weight = 0
<1>1. n \in Nat /\ DOMAIN answer = 1 .. n
  BY SequenceDomain DEF WellWeighed
<1>2. \A i \in 1 .. n : key[i] = IF light(i) THEN i ELSE n + i
  BY <1>1 DEF Key
<1>3. \A i, j \in 1 .. n : NotAfter(answer, i, j) <=>
        \/ light(i) /\ ~light(j)
        \/ (light(i) <=> light(j)) /\ i <= j
  BY DEF NotAfter
<1> HIDE DEF n, key, light
<1>4. \A i \in 1 .. n : key[i] \in 0 .. n + n
  BY <1>1, <1>2
<1>5. \A i, j \in 1 .. n : NotAfter(answer, i, j) <=> key[i] <= key[j]
  BY <1>1, <1>2, <1>3
<1>6. \A i, j \in 1 .. n : key[i] = key[j] => i = j
  BY <1>1, <1>2
<1> QED
  BY <1>1, <1>4, <1>5, <1>6 DEF n, key

LEMMA CandidatesFound ==
  ASSUME NEW answer, WellWeighed(answer)
  PROVE  /\ Candidates(answer) \subseteq Usable(answer) /\ Usable(answer) \subseteq DOMAIN answer
         /\ IsFiniteSet(Candidates(answer))
         /\ Usable(answer) # {} => Candidates(answer) # {}
<1>1. Candidates(answer) \subseteq Usable(answer) /\ Usable(answer) \subseteq DOMAIN answer
  BY DEF Candidates, Usable
<1>2. IsFiniteSet(DOMAIN answer)
  <2>1. Len(answer) \in Int /\ 1 \in Int /\ DOMAIN answer = 1 .. Len(answer)
    BY SequenceDomain DEF WellWeighed
  <2> QED
    BY <2>1, FS_Interval
<1>3. IsFiniteSet(Candidates(answer))
  BY <1>1, <1>2, FS_Subset
<1>4. ASSUME Usable(answer) # {} PROVE Candidates(answer) # {}
  <2> DEFINE priority == [i \in Usable(answer) |-> answer[i].priority]
  <2>1. \A i \in Usable(answer) : priority[i] \in Nat
    BY <1>1 DEF WellWeighed
  <2>2. PICK m \in Usable(answer) : \A i \in Usable(answer) : priority[m] <= priority[i]
    <3> HIDE DEF priority
    <3> QED
      BY <1>4, <2>1, FirstByKey
  <2>3. m \in Candidates(answer)
    BY <2>2 DEF Candidates
  <2> QED
    BY <2>3
<1> QED
  BY <1>1, <1>3, <1>4

\* The candidates up to one of them.
UpToOf(answer, i) == {j \in Candidates(answer) : NotAfter(answer, j, i)}

LEMMA LastCandidate ==
  ASSUME NEW answer, WellWeighed(answer), Usable(answer) # {}
  PROVE  \E m \in Candidates(answer) : UpToOf(answer, m) = Candidates(answer)
<1> DEFINE c == Candidates(answer)
           key == Key(answer)
           bound == Len(answer) + Len(answer)
<1>1. c # {} /\ c \subseteq DOMAIN answer
  BY CandidatesFound
<1>2. bound \in Nat /\ \A i \in c : key[i] \in 0 .. bound
  BY <1>1, KeyOrders, SequenceDomain DEF WellWeighed
<1>3. PICK m \in c : \A i \in c : key[i] <= key[m]
  <2> HIDE DEF c, key, bound
  <2> QED
    BY <1>1, <1>2, LastByKey
<1>4. \A i \in c : NotAfter(answer, i, m)
  BY <1>1, <1>3, KeyOrders
<1> QED
  BY <1>4 DEF UpToOf

LEMMA ChosenByWeight ==
  ASSUME NEW answer, WellWeighed(answer), Usable(answer) # {}, NEW turn \in Nat,
         Weight(answer, Candidates(answer)) # 0
  PROVE  LET i == Chosen(answer, turn)
             t == turn % (Weight(answer, Candidates(answer)) + 1)
         IN  /\ i \in Candidates(answer) /\ Weight(answer, UpToOf(answer, i)) >= t
             /\ \A j \in Candidates(answer) :
                   Weight(answer, UpToOf(answer, j)) >= t => NotAfter(answer, i, j)
<1> DEFINE c == Candidates(answer)
           total == Weight(answer, c)
           t == turn % (total + 1)
           Reaches(i) == Weight(answer, UpToOf(answer, i)) >= t
           R == {i \in c : Reaches(i)}
           key == Key(answer)
           choice == CHOOSE i \in c : Reaches(i) /\ \A j \in c : Reaches(j) => NotAfter(answer, i, j)
<1>1. c # {} /\ c \subseteq DOMAIN answer /\ IsFiniteSet(c)
  BY CandidatesFound
<1>2. total \in Nat
  BY <1>1, WeightIsNat DEF WellWeighed
<1>3. t \in 0 .. total
  <2>1. total + 1 \in Nat \ {0}
    BY <1>2
  <2>2. t \in 0 .. (total + 1) - 1
    BY <2>1, DivMod
  <2> QED
    BY <1>2, <2>2
<1>4. R # {}
  <2>1. PICK m \in c : UpToOf(answer, m) = c
    BY LastCandidate
  <2>2. Reaches(m)
    BY <1>2, <1>3, <2>1
  <2> QED
    BY <2>2
<1>5. PICK m \in R : \A j \in R : key[m] <= key[j]
  <2>1. \A j \in R : key[j] \in Nat
    <3>1. \A j \in DOMAIN answer : key[j] \in 0 .. Len(answer) + Len(answer)
      BY KeyOrders
    <3> QED
      BY <1>1, <3>1
  <2> HIDE DEF R, key
  <2> QED
    BY <1>4, <2>1, FirstByKey
<1>6. m \in c /\ Reaches(m) /\ \A j \in c : Reaches(j) => NotAfter(answer, m, j)
  BY <1>1, <1>5, KeyOrders
<1>7. Chosen(answer, turn) = choice
  BY DEF Chosen, UpToOf
<1> HIDE DEF Reaches, c
<1>8. choice \in c /\ Reaches(choice) /\ \A j \in c : Reaches(j) => NotAfter(answer, choice, j)
  BY <1>6, Zenon
<1> HIDE DEF choice
<1> QED
  BY <1>7, <1>8 DEF Reaches, c

LEMMA ChosenInTurn ==
  ASSUME NEW answer, WellWeighed(answer), Usable(answer) # {}, NEW turn \in Nat,
         Weight(answer, Candidates(answer)) = 0
  PROVE  LET i == Chosen(answer, turn) IN
         /\ i \in Candidates(answer)
         /\ Cardinality(UpToOf(answer, i)) = (turn % Cardinality(Candidates(answer))) + 1
<1> DEFINE c == Candidates(answer)
           n == Cardinality(c)
           k == (turn % n) + 1
           key == Key(answer)
           bound == Len(answer) + Len(answer)
           Ranks(i) == Cardinality(UpToOf(answer, i)) = k
           choice == CHOOSE i \in c : Ranks(i)
<1>1. c # {} /\ c \subseteq DOMAIN answer /\ IsFiniteSet(c)
  BY CandidatesFound
<1>2. n \in Nat \ {0}
  BY <1>1, FS_CardinalityType, FS_EmptySet
<1>3. k \in 1 .. n
  <2>1. turn % n \in 0 .. (n - 1)
    BY <1>2, DivMod
  <2> QED
    BY <1>2, <2>1
<1>4. /\ bound \in Nat /\ \A i \in c : key[i] \in 0 .. bound
      /\ \A i, j \in c : key[i] = key[j] => i = j
  BY <1>1, KeyOrders, SequenceDomain DEF WellWeighed
<1>5. PICK i \in c : Cardinality({j \in c : key[j] <= key[i]}) = k
  <2> HIDE DEF c, key, bound, k
  <2> QED
    BY <1>1, <1>3, <1>4, RankFound DEF n
<1>6. {j \in c : key[j] <= key[i]} = UpToOf(answer, i)
  BY <1>1, KeyOrders DEF UpToOf
<1>7. Ranks(i)
  BY <1>5, <1>6
<1>8. Chosen(answer, turn) = choice
  BY DEF Chosen, UpToOf
<1> HIDE DEF Ranks, c, n
<1>9. choice \in c /\ Ranks(choice)
  BY <1>7, Zenon
<1> HIDE DEF choice
<1> QED
  BY <1>8, <1>9 DEF Ranks, c, n

-----------------------------------------------------------------------------
(* Shares of a round.                                                      *)

LEMMA SmallMultiple ==
  ASSUME NEW n \in Nat \ {0}, NEW d \in Nat, NEW e \in Nat, NEW x \in Nat, NEW y \in Nat, NEW m \in Nat,
         x = n * d + m, y = n * e + m, y - x \in 0 .. (n - 1)
  PROVE  x = y
<1>1. n * d \in Nat /\ n * e \in Nat
  OBVIOUS
<1>2. CASE e = d
  BY <1>2
<1>3. ASSUME e > d PROVE FALSE
  <2>1. n * (e - (d + 1)) \in Nat
    BY <1>3
  <2>2. n * e = n * d + n + n * (e - (d + 1))
    BY <1>3
  <2> QED
    BY <1>1, <2>1, <2>2
<1>4. ASSUME e < d PROVE FALSE
  <2>1. n * (d - (e + 1)) \in Nat
    BY <1>4
  <2>2. n * d = n * e + n + n * (d - (e + 1))
    BY <1>4
  <2> QED
    BY <1>1, <2>1, <2>2
<1> QED
  BY <1>2, <1>3, <1>4

\* In a round, every remainder comes up once.
LEMMA RoundOnce ==
  ASSUME NEW n \in Nat \ {0}, NEW turn \in Nat, NEW T \in SUBSET (0 .. (n - 1))
  PROVE  Cardinality({k \in 1 .. n : (turn + k) % n \in T}) = Cardinality(T)
<1> DEFINE f == [k \in 1 .. n |-> (turn + k) % n]
           all == 0 .. (n - 1)
           K == {k \in 1 .. n : f[k] \in T}
           g == [k \in K |-> f[k]]
<1>1. \A k \in 1 .. n : f[k] \in all /\ (turn + k) \div n \in Nat
                      /\ turn + k = n * ((turn + k) \div n) + f[k]
  <2> SUFFICES ASSUME NEW k \in 1 .. n
               PROVE  (turn + k) % n \in all /\ (turn + k) \div n \in Nat
                      /\ turn + k = n * ((turn + k) \div n) + ((turn + k) % n)
    OBVIOUS
  <2> DEFINE x == turn + k
  <2>1. x \in Nat
    OBVIOUS
  <2> HIDE DEF x
  <2>2. x % n \in 0 .. (n - 1) /\ x \div n \in Nat /\ x = n * (x \div n) + (x % n)
    BY <2>1, DivMod
  <2> QED
    BY <2>2 DEF x
<1>2. ASSUME NEW k \in 1 .. n, NEW l \in 1 .. n, f[k] = f[l], k <= l PROVE k = l
  <2> DEFINE x == turn + k
             y == turn + l
             d == (turn + k) \div n
             e == (turn + l) \div n
             m == f[k]
  <2>1. x \in Nat /\ y \in Nat /\ m \in Nat /\ d \in Nat /\ e \in Nat /\ x = n * d + m /\ y = n * e + m
    <3>1. x \in Nat /\ y \in Nat
      OBVIOUS
    <3>2. m \in all /\ d \in Nat /\ x = n * d + m
      BY <1>1
    <3>3. e \in Nat /\ y = n * e + f[l]
      BY <1>1
    <3> HIDE DEF f, x, y, d, e
    <3> QED
      BY <1>2, <3>1, <3>2, <3>3
  <2>2. y - x \in 0 .. (n - 1)
    BY <1>2
  <2>3. x = y
    <3> HIDE DEF x, y, d, e, m
    <3> QED
      BY <2>1, <2>2, SmallMultiple
  <2> QED
    BY <2>3
<1>3. f \in Injection(1 .. n, all)
  <2>1. \A k, l \in 1 .. n : f[k] = f[l] => k = l
    <3> HIDE DEF f
    <3> QED
      BY <1>2
  <2>2. f \in [1 .. n -> all]
    BY <1>1
  <2> HIDE DEF f, all
  <2> QED
    BY <2>1, <2>2 DEF Injection, IsInjective
<1>4. f \in Surjection(1 .. n, all)
  <2>1. IsFiniteSet(1 .. n) /\ Cardinality(1 .. n) = n
    BY FS_Interval
  <2>2. IsFiniteSet(all) /\ Cardinality(all) = n
    <3>1. 0 \in Int /\ n - 1 \in Int /\ ~(0 > n - 1) /\ (n - 1) - 0 + 1 = n
      OBVIOUS
    <3> QED
      BY <3>1, FS_Interval
  <2> HIDE DEF f, all
  <2> QED
    BY <1>3, <2>1, <2>2, FS_Injection
<1>5. IsFiniteSet(K)
  <2>1. IsFiniteSet(1 .. n)
    BY FS_Interval
  <2> QED
    BY <2>1, FS_Subset
<1>6. g \in Bijection(K, T)
  <2>1. \A k, l \in 1 .. n : f[k] = f[l] => k = l
    <3> HIDE DEF f
    <3> QED
      BY <1>3 DEF Injection, IsInjective
  <2>2. \A t \in T : \E k \in 1 .. n : f[k] = t
    <3> HIDE DEF f
    <3> QED
      BY <1>4 DEF Surjection
  <2> HIDE DEF f
  <2>3. g \in [K -> T] /\ \A k, l \in K : g[k] = g[l] => k = l
    BY <2>1
  <2>4. \A t \in T : \E k \in K : g[k] = t
    BY <2>2
  <2> HIDE DEF g, K
  <2> QED
    BY <2>3, <2>4 DEF Bijection, Injection, IsInjective, Surjection
<1>7. Cardinality(K) = Cardinality(T)
  <2> HIDE DEF g, K
  <2> QED
    BY <1>5, <1>6, FS_Bijection DEF ExistsBijection
<1>8. K = {k \in 1 .. n : (turn + k) % n \in T}
  OBVIOUS
<1> QED
  BY <1>7, <1>8

\* The weight up to a record, without it, and the turns in a round that choose it.
LEMMA ShareByWeight ==
  ASSUME NEW answer, WellWeighed(answer), Usable(answer) # {}, NEW turn \in Nat,
         Weight(answer, Candidates(answer)) # 0, NEW i \in Candidates(answer)
  PROVE  Cardinality({k \in 1 .. Weight(answer, Candidates(answer)) + 1 : Chosen(answer, turn + k) = i})
           = answer[i].weight + (IF UpToOf(answer, i) = {i} THEN 1 ELSE 0)
<1> DEFINE c == Candidates(answer)
           total == Weight(answer, c)
           n == total + 1
           key == Key(answer)
           up(j) == UpToOf(answer, j)
           B(j) == Weight(answer, up(j))
           before == up(i) \ {i}
           A == Weight(answer, before)
           w == answer[i].weight
           low == IF up(i) = {i} THEN 0 ELSE A + 1
           T == low .. B(i)
<1>1. c # {} /\ c \subseteq DOMAIN answer /\ IsFiniteSet(c) /\ \A j \in c : answer[j].weight \in Nat
  BY CandidatesFound DEF WellWeighed
<1>2. total \in Nat /\ n \in Nat \ {0}
  <2>1. total \in Nat
    BY <1>1, WeightIsNat
  <2> HIDE DEF total
  <2> QED
    BY <2>1
<1>3. /\ \A j \in c : key[j] \in Nat
      /\ \A j, l \in c : NotAfter(answer, j, l) <=> key[j] <= key[l]
      /\ \A j, l \in c : key[j] = key[l] => j = l
  <2>1. \A j \in DOMAIN answer : key[j] \in 0 .. Len(answer) + Len(answer)
    BY KeyOrders
  <2> QED
    BY <1>1, <2>1, KeyOrders
<1>4. \A j \in c : up(j) = {l \in c : key[l] <= key[j]}
  BY <1>3 DEF UpToOf
<1>5. \A j \in c : IsFiniteSet(up(j)) /\ up(j) \subseteq c
  BY <1>1, <1>4, FS_Subset
<1>6. w \in Nat /\ \A j \in c : B(j) \in Nat /\ B(j) <= total
  <2>1. \A j \in c : B(j) \in Nat
    BY <1>1, <1>5, WeightIsNat
  <2>2. \A j \in c : B(j) <= total
    BY <1>1, <1>5, WeightOfMore
  <2> QED
    BY <1>1, <2>1, <2>2
<1>7. i \in up(i) /\ A \in Nat /\ B(i) = A + w
  <2>1. i \in up(i)
    BY <1>3, <1>4
  <2>2. IsFiniteSet(before) /\ before \subseteq c
    BY <1>5, FS_RemoveElement
  <2>3. A \in Nat
    BY <1>1, <2>2, WeightIsNat
  <2>4. \A j \in up(i) : answer[j].weight \in Nat
    BY <1>1, <1>5
  <2>5. B(i) = A + w
    BY <1>5, <2>1, <2>4, WeightOfOneMore
  <2> QED
    BY <2>1, <2>3, <2>5
<1>8. ASSUME up(i) = {i} PROVE A = 0
  <2>1. before = {}
    BY <1>8
  <2> QED
    BY <2>1, FS_EmptySet DEF Weight
<1>9. ASSUME up(i) # {i}
      PROVE  \E p \in c : B(p) = A /\ p # i /\ ~NotAfter(answer, i, p)
  <2>1. before # {}
    BY <1>7, <1>9
  <2>2. PICK p \in before : \A j \in before : key[j] <= key[p]
    <3> DEFINE bound == Len(answer) + Len(answer)
    <3>1. bound \in Nat /\ \A j \in before : key[j] \in 0 .. bound
      BY <1>1, <1>5, KeyOrders, SequenceDomain DEF WellWeighed
    <3> HIDE DEF before, key, bound
    <3> QED
      BY <2>1, <3>1, LastByKey
  <2>3. p \in c /\ p # i /\ key[p] <= key[i] /\ key[p] # key[i]
    BY <1>3, <1>4, <2>2
  <2>4. up(p) = before
    BY <1>3, <1>4, <2>2, <2>3
  <2> QED
    BY <1>3, <2>3, <2>4
<1>10. ASSUME NEW j \in c, j # i, NotAfter(answer, j, i)
       PROVE  B(j) <= A /\ up(i) # {i}
  <2>1. key[j] <= key[i] /\ key[j] # key[i] /\ j \in before
    BY <1>3, <1>4, <1>10
  <2>2. up(j) \subseteq before
    BY <1>3, <1>4, <2>1
  <2>3. IsFiniteSet(before) /\ \A l \in before : answer[l].weight \in Nat
    BY <1>1, <1>5, FS_RemoveElement
  <2>4. B(j) <= A
    BY <2>2, <2>3, WeightOfMore
  <2> QED
    BY <2>1, <2>4
<1>11. ASSUME NEW k \in 1 .. n
       PROVE  Chosen(answer, turn + k) = i <=> (turn + k) % n \in T
  <2> DEFINE x == turn + k
             t == x % n
             choice == Chosen(answer, x)
  <2>1. x \in Nat
    OBVIOUS
  <2>2. t \in 0 .. total
    <3> HIDE DEF x, n
    <3>1. t \in 0 .. (n - 1)
      BY <1>2, <2>1, DivMod
    <3> QED
      BY <1>2, <3>1 DEF n
  <2>3. choice \in c /\ B(choice) >= t /\ \A j \in c : B(j) >= t => NotAfter(answer, choice, j)
    <3> HIDE DEF x
    <3> QED
      BY <2>1, ChosenByWeight
  <2> HIDE DEF x, t, choice, n, c, up, B, A, before, key, total, w
  <2>4. ASSUME choice = i PROVE t \in T
    <3>1. B(i) >= t
      BY <2>3, <2>4
    <3>2. CASE up(i) = {i}
      BY <1>6, <2>2, <2>3, <2>4, <3>1, <3>2
    <3>3. CASE up(i) # {i}
      <4>1. PICK p \in c : B(p) = A /\ ~NotAfter(answer, i, p)
        BY <1>9, <3>3
      <4>2. ~(A >= t)
        BY <2>3, <2>4, <4>1
      <4> QED
        BY <1>2, <1>6, <1>7, <2>2, <3>1, <3>3, <4>2
    <3> QED
      BY <3>2, <3>3
  <2>5. ASSUME t \in T PROVE choice = i
    <3>1. B(i) >= t
      BY <2>5
    <3>2. NotAfter(answer, choice, i)
      BY <2>3, <3>1 DEF c
    <3>3. ASSUME choice # i PROVE FALSE
      <4>1. B(choice) <= A /\ up(i) # {i}
        BY <1>10, <2>3, <3>2, <3>3
      <4>2. t >= A + 1
        BY <2>5, <4>1
      <4> QED
        BY <1>6, <1>7, <1>2, <2>2, <2>3, <4>1, <4>2
    <3> QED
      BY <3>3
  <2> QED
    BY <2>4, <2>5 DEF choice, t, x
<1>12. T \in SUBSET (0 .. (n - 1)) /\ Cardinality(T) = w + (IF up(i) = {i} THEN 1 ELSE 0)
  <2>1. low \in Nat /\ B(i) \in Nat /\ B(i) <= total
    BY <1>6, <1>7
  <2>2. Cardinality(T) = IF low > B(i) THEN 0 ELSE B(i) - low + 1
    <3> HIDE DEF low, B
    <3>1. low \in Int /\ B(i) \in Int
      BY <2>1
    <3> QED
      BY <3>1, FS_Interval
  <2>3. n - 1 = total
    BY <1>2
  <2> HIDE DEF n, B, up, A, total, w
  <2>4. T \in SUBSET (0 .. (n - 1))
    BY <1>2, <2>1, <2>3
  <2>5. CASE up(i) = {i}
    BY <1>6, <1>7, <1>8, <2>1, <2>2, <2>4, <2>5
  <2>6. CASE up(i) # {i}
    BY <1>6, <1>7, <2>1, <2>2, <2>4, <2>6
  <2> QED
    BY <2>5, <2>6
<1>13. Cardinality({k \in 1 .. n : (turn + k) % n \in T}) = Cardinality(T)
  <2> HIDE DEF n, T
  <2> QED
    BY <1>2, <1>12, RoundOnce
<1>14. {k \in 1 .. n : Chosen(answer, turn + k) = i} = {k \in 1 .. n : (turn + k) % n \in T}
  BY <1>11
<1> QED
  BY <1>12, <1>13, <1>14

\* Without weights, each candidate has one turn of a round.
LEMMA ShareInTurn ==
  ASSUME NEW answer, WellWeighed(answer), Usable(answer) # {}, NEW turn \in Nat,
         Weight(answer, Candidates(answer)) = 0, NEW i \in Candidates(answer)
  PROVE  Cardinality({k \in 1 .. Cardinality(Candidates(answer)) : Chosen(answer, turn + k) = i}) = 1
<1> DEFINE c == Candidates(answer)
           n == Cardinality(c)
           key == Key(answer)
           up(j) == UpToOf(answer, j)
           rank(j) == Cardinality(up(j))
           T == {rank(i) - 1}
<1>1. c # {} /\ c \subseteq DOMAIN answer /\ IsFiniteSet(c)
  BY CandidatesFound
<1>2. n \in Nat \ {0}
  BY <1>1, FS_CardinalityType, FS_EmptySet
<1>3. /\ \A j \in c : key[j] \in Nat
      /\ \A j, l \in c : NotAfter(answer, j, l) <=> key[j] <= key[l]
      /\ \A j, l \in c : key[j] = key[l] => j = l
  <2>1. \A j \in DOMAIN answer : key[j] \in 0 .. Len(answer) + Len(answer)
    BY KeyOrders
  <2> QED
    BY <1>1, <2>1, KeyOrders
<1>4. \A j \in c : up(j) = {l \in c : key[l] <= key[j]}
  BY <1>3 DEF UpToOf
<1>5. \A j \in c : IsFiniteSet(up(j)) /\ rank(j) \in 1 .. n
  <2> SUFFICES ASSUME NEW j \in c PROVE IsFiniteSet(up(j)) /\ rank(j) \in 1 .. n
    OBVIOUS
  <2>1. up(j) \in SUBSET c /\ j \in up(j)
    BY <1>3, <1>4
  <2>2. IsFiniteSet(up(j)) /\ rank(j) <= n
    BY <1>1, <2>1, FS_Subset
  <2>3. rank(j) \in Nat /\ rank(j) # 0
    BY <2>1, <2>2, FS_CardinalityType, FS_EmptySet
  <2> QED
    BY <1>2, <2>2, <2>3
<1>6. ASSUME NEW j \in c, NEW l \in c, key[j] <= key[l], rank(j) = rank(l) PROVE j = l
  <2>1. up(j) \in SUBSET up(l)
    BY <1>3, <1>4, <1>6
  <2>2. up(l) = up(j)
    BY <1>5, <1>6, <2>1, FS_Subset
  <2>3. l \in up(l)
    BY <1>3, <1>4
  <2>4. key[l] <= key[j]
    BY <1>4, <2>2, <2>3
  <2> QED
    BY <1>3, <1>6, <2>4
<1>7. \A j \in c : rank(j) = rank(i) => j = i
  <2> SUFFICES ASSUME NEW j \in c, rank(j) = rank(i) PROVE j = i
    OBVIOUS
  <2>1. key[j] <= key[i] \/ key[i] <= key[j]
    BY <1>3
  <2> QED
    BY <1>6, <2>1
<1>8. ASSUME NEW k \in 1 .. n
      PROVE  Chosen(answer, turn + k) = i <=> (turn + k) % n \in T
  <2> DEFINE x == turn + k
             choice == Chosen(answer, x)
  <2>1. x \in Nat
    OBVIOUS
  <2>2. choice \in c /\ rank(choice) = (x % n) + 1
    <3> HIDE DEF x
    <3> QED
      BY <2>1, ChosenInTurn
  <2>3. x % n \in 0 .. (n - 1)
    <3> HIDE DEF x, n
    <3> QED
      BY <1>2, <2>1, DivMod
  <2>4. rank(i) \in 1 .. n
    BY <1>5
  <2> DEFINE t == x % n
  <2> HIDE DEF x, choice, c, rank, n, t
  <2>5. choice = i <=> rank(choice) = rank(i)
    BY <1>7, <2>2
  <2>6. rank(choice) = rank(i) <=> t = rank(i) - 1
    BY <1>2, <2>2, <2>3, <2>4 DEF t
  <2> QED
    BY <2>5, <2>6 DEF x, choice, t
<1>9. T \in SUBSET (0 .. (n - 1))
  BY <1>2, <1>5
<1>10. Cardinality({k \in 1 .. n : (turn + k) % n \in T}) = Cardinality(T)
  <2> HIDE DEF n, T
  <2> QED
    BY <1>2, <1>9, RoundOnce
<1>11. {k \in 1 .. n : Chosen(answer, turn + k) = i} = {k \in 1 .. n : (turn + k) % n \in T}
  BY <1>8
<1>12. Cardinality(T) = 1
  BY FS_Singleton
<1> QED
  BY <1>10, <1>11, <1>12

\* The first candidate in the order: the first without weight, or the first.
LEMMA SpareIsFirst ==
  ASSUME NEW answer, WellWeighed(answer), NEW i \in Candidates(answer)
  PROVE  LET lowest == Candidates(answer)
             light == {j \in lowest : answer[j].weight = 0}
         IN  i = Min(IF light = {} THEN lowest ELSE light) <=> UpToOf(answer, i) = {i}
<1> DEFINE c == Candidates(answer)
           light == {j \in c : answer[j].weight = 0}
           S == IF light = {} THEN c ELSE light
<1>1. c \subseteq DOMAIN answer /\ DOMAIN answer \subseteq Nat
  BY CandidatesFound, SequenceDomain DEF WellWeighed
<1>2. S \subseteq c /\ S # {} /\ c \subseteq Nat
  BY <1>1
<1>3. PICK m \in S : \A j \in S : m <= j
  <2> HIDE DEF S, c
  <2> QED
    BY <1>2, LeastElement
<1>4. Min(S) = m
  <2>1. Min(S) = CHOOSE x \in S : \A y \in S : x <= y
    BY DEF Min
  <2> HIDE DEF S
  <2>2. \A x \in S : (\A y \in S : x <= y) => x = m
    BY <1>2, <1>3
  <2> QED
    BY <1>3, <2>1, <2>2
<1>5. \A j \in c : NotAfter(answer, m, j)
  BY <1>1, <1>3 DEF NotAfter
<1>6. i \in UpToOf(answer, i)
  BY <1>1 DEF UpToOf, NotAfter
<1>7. ASSUME i = m PROVE UpToOf(answer, i) = {i}
  <2>1. \A j \in c : NotAfter(answer, j, i) => j = i
    BY <1>1, <1>2, <1>5, <1>7, KeyOrders
  <2> QED
    BY <1>6, <2>1 DEF UpToOf
<1>8. ASSUME UpToOf(answer, i) = {i} PROVE i = m
  <2>1. m \in UpToOf(answer, i)
    BY <1>2, <1>3, <1>5 DEF UpToOf
  <2> QED
    BY <1>8, <2>1
<1>9. i = Min(S) <=> UpToOf(answer, i) = {i}
  BY <1>4, <1>7, <1>8
<1> QED
  BY <1>9

-----------------------------------------------------------------------------
(* What the resolver promises.                                             *)

\* Whatever the turn, select_srv_target gives one of the usable records of the
\* lowest priority, and finds it before it falls through to the last one.
THEOREM ChosenIsCandidate ==
  ASSUME NEW answer, WellWeighed(answer), Usable(answer) # {}, NEW turn \in Nat
  PROVE  Chosen(answer, turn) \in Candidates(answer)
BY ChosenByWeight, ChosenInTurn

\* The turns of a round, and those of them that a record has a right to: the
\* first in the order, without weight where there is one, has one to spare.
Total(answer) == Weight(answer, Candidates(answer))
Round(answer) == IF Total(answer) = 0 THEN Cardinality(Candidates(answer)) ELSE Total(answer) + 1
First(answer) ==
    LET light == {j \in Candidates(answer) : answer[j].weight = 0}
    IN  Min(IF light = {} THEN Candidates(answer) ELSE light)
Share(answer, i) ==
    IF i \notin Candidates(answer) THEN 0
    ELSE IF Total(answer) = 0 THEN 1
    ELSE answer[i].weight + (IF i = First(answer) THEN 1 ELSE 0)

\* From any turn on, a round of one turn more than the total weight gives each
\* record of the lowest priority its weight, and one of them the turn to spare;
\* without any weight, a round is one turn for each.  So select_srv_target
\* starves no record of the lowest priority, and favours one by a turn a round.
THEOREM SharesAreFair ==
  ASSUME NEW answer, WellWeighed(answer), NEW turn \in Nat, NEW i \in Usable(answer)
  PROVE  Cardinality({k \in 1 .. Round(answer) : Chosen(answer, turn + k) = i}) = Share(answer, i)
<1> DEFINE round == Round(answer)
           chosen == {k \in 1 .. round : Chosen(answer, turn + k) = i}
<1>0. Usable(answer) # {}
  OBVIOUS
<1>1. CASE i \notin Candidates(answer)
  <2>1. \A k \in 1 .. round : turn + k \in Nat
    OBVIOUS
  <2>2. \A k \in 1 .. round : Chosen(answer, turn + k) \in Candidates(answer)
    BY <1>0, <2>1, ChosenIsCandidate
  <2>3. chosen = {}
    BY <1>1, <2>2
  <2> QED
    BY <1>1, <2>3, FS_EmptySet DEF Share
<1>2. CASE i \in Candidates(answer) /\ Total(answer) = 0
  <2>1. round = Cardinality(Candidates(answer)) /\ Share(answer, i) = 1
    BY <1>2 DEF Round, Share
  <2> HIDE DEF round
  <2>2. Cardinality({k \in 1 .. Cardinality(Candidates(answer)) : Chosen(answer, turn + k) = i}) = 1
    BY <1>0, <1>2, ShareInTurn DEF Total
  <2> QED
    BY <2>1, <2>2 DEF round
<1>3. CASE i \in Candidates(answer) /\ Total(answer) # 0
  <2>1. round = Total(answer) + 1
        /\ Share(answer, i) = answer[i].weight + (IF i = First(answer) THEN 1 ELSE 0)
    BY <1>3 DEF Round, Share
  <2> HIDE DEF round
  <2>2. Cardinality({k \in 1 .. Total(answer) + 1 : Chosen(answer, turn + k) = i})
          = answer[i].weight + (IF UpToOf(answer, i) = {i} THEN 1 ELSE 0)
    BY <1>0, <1>3, ShareByWeight DEF Total
  <2>3. i = First(answer) <=> UpToOf(answer, i) = {i}
    BY <1>3, SpareIsFirst DEF First
  <2> QED
    BY <2>1, <2>2, <2>3 DEF round
<1> QED
  BY <1>1, <1>2, <1>3
=============================================================================
