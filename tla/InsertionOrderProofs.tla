------------------------ MODULE InsertionOrderProofs ------------------------
(***************************************************************************)
(* What deleting, appending and renewing a key do to the key order of a    *)
(* Map: they keep it free of repetitions, change its elements as expected  *)
(* and never swap two keys that stay.                                      *)
(***************************************************************************)
EXTENDS InsertionOrder, FiniteSetTheorems, TLAPS

\* How many elements of S come no later than k in the numbering p.
Rank(S, p, k) == Cardinality({j \in S : p[j] <= p[k]})

LEMMA RankBetween ==
  ASSUME NEW S, IsFiniteSet(S), NEW p \in [S -> Int], NEW k \in S
  PROVE  Rank(S, p, k) \in 1..Cardinality(S)
<1> DEFINE upTo == {j \in S : p[j] <= p[k]}
<1>1. upTo \in SUBSET S /\ k \in upTo
  OBVIOUS
<1>2. IsFiniteSet(upTo) /\ Cardinality(upTo) <= Cardinality(S)
  BY <1>1, FS_Subset
<1>3. Cardinality(upTo) \in Nat /\ Cardinality(S) \in Nat /\ Cardinality(upTo) # 0
  BY <1>1, <1>2, FS_CardinalityType, FS_EmptySet
<1> QED BY <1>2, <1>3 DEF Rank

\* A later element has a larger rank.
LEMMA RankGrows ==
  ASSUME NEW S, IsFiniteSet(S), NEW p \in [S -> Int], NEW j \in S, NEW k \in S, p[j] < p[k]
  PROVE  Rank(S, p, j) < Rank(S, p, k)
<1> DEFINE low  == {i \in S : p[i] <= p[j]}
           high == {i \in S : p[i] <= p[k]}
<1>1. low \in SUBSET high /\ k \in high /\ k \notin low
  OBVIOUS
<1>2. IsFiniteSet(high)
  BY FS_Subset
<1>3. Cardinality(low) <= Cardinality(high) /\ Cardinality(low) # Cardinality(high)
  BY <1>1, <1>2, FS_Subset
<1>4. Cardinality(low) \in Nat /\ Cardinality(high) \in Nat
  BY <1>1, <1>2, FS_Subset, FS_CardinalityType
<1> QED BY <1>3, <1>4 DEF Rank

\* Ranks number the elements from 1, without gaps.
LEMMA RankNumbers ==
  ASSUME NEW S, IsFiniteSet(S), NEW p \in [S -> Int], IsInjective(p)
  PROVE  [k \in S |-> Rank(S, p, k)] \in Bijection(S, 1..Cardinality(S))
<1> DEFINE rank == [k \in S |-> Rank(S, p, k)]
           n == Cardinality(S)
<1>1. n \in Nat
  BY FS_CardinalityType
<1>2. rank \in [S -> 1..n]
  BY RankBetween
<1>3. ASSUME NEW j \in S, NEW k \in S, rank[j] = rank[k]
      PROVE  j = k
  <2>1. Rank(S, p, j) = Rank(S, p, k) /\ Rank(S, p, j) \in Int
    BY <1>1, <1>3, RankBetween
  <2>2. ~(p[j] < p[k]) /\ ~(p[k] < p[j])
    BY <2>1, RankGrows
  <2>3. p[j] = p[k]
    BY <2>2
  <2> QED BY <2>3 DEF IsInjective
<1>4. rank \in Injection(S, 1..n)
  BY <1>2, <1>3 DEF Injection, IsInjective
<1>5. IsFiniteSet(1..n) /\ Cardinality(1..n) = n
  BY <1>1, FS_Interval
<1>6. rank \in Surjection(S, 1..n)
  BY <1>4, <1>5, FS_Injection
<1> QED BY <1>4, <1>6 DEF Bijection

\* Picked(s, I) has the element of every position of I once, in order.
LEMMA PickedPositions ==
  ASSUME NEW S, NEW s \in Seq(S), NEW I \in SUBSET DOMAIN s
  PROVE  /\ IsFiniteSet(I) /\ Cardinality(I) \in Nat /\ Cardinality(I) <= Len(s)
         /\ Picked(s, I) \in Seq(S)
         /\ Len(Picked(s, I)) = Cardinality(I)
         /\ \E at \in Bijection(1..Cardinality(I), I) :
              \A n \in 1..Cardinality(I) : Picked(s, I)[n] = s[at[n]]
<1> DEFINE n == Cardinality(I)
           p == [i \in I |-> i]
           rank == [i \in I |-> Rank(I, p, i)]
           at == [m \in 1..n |-> CHOOSE i \in I : Cardinality({j \in I : j <= i}) = m]
<1>1. Len(s) \in Nat /\ DOMAIN s = 1..Len(s)
  OBVIOUS
<1>2. IsFiniteSet(1..Len(s)) /\ Cardinality(1..Len(s)) = Len(s)
  <2> HIDE DEF n, p, rank, at
  <2> DEFINE b == Len(s)
  <2>1. b \in Nat
    BY <1>1
  <2> HIDE DEF b
  <2>2. IsFiniteSet(1..b) /\ Cardinality(1..b) = IF 1 > b THEN 0 ELSE b - 1 + 1
    BY <2>1, FS_Interval
  <2>3. Cardinality(1..b) = b
    BY <2>1, <2>2
  <2> QED BY <2>2, <2>3 DEF b
<1>3. IsFiniteSet(I) /\ n \in Nat /\ n <= Len(s)
  BY <1>1, <1>2, FS_Subset, FS_CardinalityType
<1>4. p \in [I -> Int] /\ IsInjective(p)
  BY <1>1 DEF IsInjective
<1>5. rank \in Bijection(I, 1..n)
  BY <1>3, <1>4, RankNumbers
<1>6. \A i \in I : rank[i] = Cardinality({j \in I : j <= i})
  <2> TAKE i \in I
  <2>1. {j \in I : p[j] <= p[i]} = {j \in I : j <= i}
    OBVIOUS
  <2> QED BY <2>1 DEF Rank
<1> HIDE DEF n, p, rank
<1>7. /\ rank \in [I -> 1..n]
      /\ \A i, j \in I : rank[i] = rank[j] => i = j
      /\ \A m \in 1..n : \E i \in I : rank[i] = m
  BY <1>5 DEF Bijection, Injection, Surjection, IsInjective
<1>8. \A m \in 1..n : at[m] \in I /\ rank[at[m]] = m
  <2> TAKE m \in 1..n
  <2>1. \E i \in I : Cardinality({j \in I : j <= i}) = m
    BY <1>6, <1>7
  <2>2. at[m] \in I /\ Cardinality({j \in I : j <= at[m]}) = m
    BY <2>1
  <2> QED BY <1>6, <2>2
<1>9. Picked(s, I) = [m \in 1..n |-> s[at[m]]]
  BY DEF Picked, n
<1> HIDE DEF at
<1>10. at \in [1..n -> I]
  BY <1>8 DEF at
<1>11. \A l, m \in 1..n : at[l] = at[m] => l = m
  BY <1>8
<1>12. \A i \in I : \E m \in 1..n : at[m] = i
  <2> TAKE i \in I
  <2>1. rank[i] \in 1..n /\ rank[at[rank[i]]] = rank[i] /\ at[rank[i]] \in I
    BY <1>7, <1>8
  <2>2. at[rank[i]] = i
    BY <1>7, <2>1
  <2> QED BY <2>1, <2>2
<1>13. at \in Bijection(1..n, I)
  BY <1>10, <1>11, <1>12 DEF Bijection, Injection, Surjection, IsInjective
<1>14. \A m \in 1..n : at[m] \in 1..Len(s) /\ s[at[m]] \in S
  BY <1>1, <1>8
<1>15. Picked(s, I) \in [1..n -> S]
  BY <1>9, <1>14
<1>16. Picked(s, I) \in Seq(S) /\ Len(Picked(s, I)) = n
  BY <1>3, <1>15
<1>17. \A m \in 1..n : Picked(s, I)[m] = s[at[m]]
  BY <1>9
<1> QED BY <1>3, <1>13, <1>16, <1>17 DEF n

\* Its elements, and that none is there twice if s has none twice.
LEMMA PickedElements ==
  ASSUME NEW S, NEW s \in Seq(S), NEW I \in SUBSET DOMAIN s
  PROVE  /\ Picked(s, I) \in Seq(S)
         /\ ToSet(Picked(s, I)) = {s[i] : i \in I}
         /\ IsInjective(s) => IsInjective(Picked(s, I))
<1> DEFINE n == Cardinality(I)
           t == Picked(s, I)
<1>1. PICK at \in Bijection(1..n, I) : \A m \in 1..n : t[m] = s[at[m]]
  BY PickedPositions
<1>2. /\ n \in Nat /\ t \in Seq(S) /\ Len(t) = n /\ DOMAIN t = 1..n
  BY PickedPositions
<1> HIDE DEF n, t
<1>3. /\ \A m \in 1..n : at[m] \in I
      /\ \A l, m \in 1..n : at[l] = at[m] => l = m
      /\ \A i \in I : \E m \in 1..n : at[m] = i
  BY <1>1 DEF Bijection, Injection, Surjection, IsInjective
<1>4. ToSet(t) = {t[m] : m \in 1..n}
  BY <1>2 DEF ToSet
<1>5. ToSet(t) = {s[i] : i \in I}
  BY <1>1, <1>3, <1>4
<1>6. ASSUME IsInjective(s)
      PROVE  IsInjective(t)
  BY <1>1, <1>2, <1>3, <1>6 DEF IsInjective
<1> QED BY <1>2, <1>5, <1>6 DEF t

LEMMA PositionIsIndex ==
  ASSUME NEW S, NEW s \in Seq(S), NEW k \in ToSet(s)
  PROVE  Position(s, k) \in 1..Len(s) /\ s[Position(s, k)] = k
  BY DEF Position, ToSet

LEMMA WithoutIsShift ==
  ASSUME NEW S, NEW s \in Seq(S), NEW k \in ToSet(s)
  PROVE  /\ Without(s, k) \in Seq(S)
         /\ Len(Without(s, k)) = Len(s) - 1
         /\ \A i \in 1..(Len(s) - 1) :
              Without(s, k)[i] = s[IF i < Position(s, k) THEN i ELSE i + 1]
<1> DEFINE p == Position(s, k)
<1>1. p \in 1..Len(s) /\ Len(s) \in Nat
  BY PositionIsIndex
<1> HIDE DEF p
<1>2. Without(s, k) = SubSeq(s, 1, p - 1) \o SubSeq(s, p + 1, Len(s))
  BY DEF Without, RemoveAt, p
<1>3. /\ SubSeq(s, 1, p - 1) \in Seq(S) /\ Len(SubSeq(s, 1, p - 1)) = p - 1
      /\ \A i \in 1..(p - 1) : SubSeq(s, 1, p - 1)[i] = s[i]
  BY <1>1
<1>4. /\ SubSeq(s, p + 1, Len(s)) \in Seq(S)
      /\ Len(SubSeq(s, p + 1, Len(s))) = Len(s) - p
      /\ \A i \in 1..(Len(s) - p) : SubSeq(s, p + 1, Len(s))[i] = s[p + i]
  BY <1>1
<1> DEFINE front == SubSeq(s, 1, p - 1)
           back  == SubSeq(s, p + 1, Len(s))
           w     == Without(s, k)
<1>5. w = front \o back /\ front \in Seq(S) /\ back \in Seq(S)
  BY <1>2, <1>3, <1>4
<1>6. Len(front) = p - 1 /\ Len(back) = Len(s) - p
  BY <1>3, <1>4
<1>7. /\ \A i \in 1..(p - 1) : front[i] = s[i]
      /\ \A i \in 1..(Len(s) - p) : back[i] = s[p + i]
  BY <1>3, <1>4
<1> HIDE DEF front, back, w
<1>8. w \in Seq(S) /\ Len(w) = Len(s) - 1
  <2>1. w \in Seq(S) /\ Len(w) = Len(front) + Len(back)
    BY <1>5
  <2>2. QED
    BY <1>1, <1>6, <2>1
<1>9. ASSUME NEW i \in 1..(Len(s) - 1)
      PROVE  w[i] = s[IF i < p THEN i ELSE i + 1]
  <2>1. CASE i < p
    BY <1>1, <1>5, <1>6, <1>7, <2>1
  <2>2. CASE ~(i < p)
    <3>1. i - (p - 1) \in 1..(Len(s) - p) /\ p + (i - (p - 1)) = i + 1
      BY <1>1, <2>2
    <3>2. w[i] = back[i - (p - 1)]
      BY <1>1, <1>5, <1>6, <2>2
    <3>3. QED
      BY <1>7, <2>2, <3>1, <3>2
  <2>3. QED
    BY <2>1, <2>2
<1>10. QED
  BY <1>8, <1>9 DEF p, w

\* Without(s, k) lists the other elements of s, each once, in their old order.
LEMMA WithoutProperties ==
  ASSUME NEW S, NEW s \in Seq(S), IsInjective(s), NEW k
  PROVE  /\ Without(s, k) \in Seq(S)
         /\ IsInjective(Without(s, k))
         /\ ToSet(Without(s, k)) = ToSet(s) \ {k}
         /\ Len(Without(s, k)) <= Len(s)
         /\ k \in ToSet(s) => Len(Without(s, k)) = Len(s) - 1
         /\ \A i, j \in DOMAIN Without(s, k) : i < j =>
              \E a, b \in DOMAIN s :
                a < b /\ s[a] = Without(s, k)[i] /\ s[b] = Without(s, k)[j]
<1>1. CASE k \notin ToSet(s)
  BY <1>1 DEF Without
<1>2. CASE k \in ToSet(s)
  <2> DEFINE p == Position(s, k)
             w == Without(s, k)
             old(i) == IF i < p THEN i ELSE i + 1
  <2>1. p \in 1..Len(s) /\ s[p] = k /\ Len(s) \in Nat
    BY <1>2, PositionIsIndex
  <2>2. /\ w \in Seq(S) /\ Len(w) = Len(s) - 1
        /\ \A i \in 1..(Len(s) - 1) : w[i] = s[old(i)]
    BY <1>2, WithoutIsShift
  <2>3. DOMAIN w = 1..(Len(s) - 1) /\ DOMAIN s = 1..Len(s)
    BY <2>2
  <2> HIDE DEF p, w
  <2>4. \A i \in 1..(Len(s) - 1) : old(i) \in 1..Len(s) /\ old(i) # p
    BY <2>1
  <2>5. \A a \in 1..Len(s) : a # p => \E i \in 1..(Len(s) - 1) : old(i) = a
    <3> SUFFICES ASSUME NEW a \in 1..Len(s), a # p
                 PROVE  \E i \in 1..(Len(s) - 1) : old(i) = a
      OBVIOUS
    <3>1. CASE a < p
      <4>1. a \in 1..(Len(s) - 1) /\ old(a) = a
        BY <2>1, <3>1
      <4>2. QED
        BY <4>1
    <3>2. CASE a > p
      <4>1. a - 1 \in 1..(Len(s) - 1) /\ old(a - 1) = a
        BY <2>1, <3>2
      <4>2. QED
        BY <4>1
    <3>3. QED
      BY <2>1, <3>1, <3>2
  <2>6. \A i, j \in 1..(Len(s) - 1) : i < j => old(i) < old(j)
    BY <2>1
  <2>7. IsInjective(w)
    <3> SUFFICES ASSUME NEW i \in 1..(Len(s) - 1), NEW j \in 1..(Len(s) - 1),
                        w[i] = w[j]
                 PROVE  i = j
      BY <2>3 DEF IsInjective
    <3>1. old(i) = old(j)
      BY <2>2, <2>3, <2>4 DEF IsInjective
    <3>2. QED
      BY <2>1, <3>1
  <2>8. ToSet(w) = ToSet(s) \ {k}
    <3>1. ASSUME NEW x \in ToSet(w) PROVE x \in ToSet(s) \ {k}
      <4>1. PICK i \in 1..(Len(s) - 1) : x = w[i]
        BY <2>3 DEF ToSet
      <4>2. x = s[old(i)] /\ old(i) \in 1..Len(s) /\ old(i) # p
        BY <2>2, <2>4, <4>1
      <4>3. s[old(i)] # s[p]
        BY <2>1, <2>3, <4>2 DEF IsInjective
      <4>4. QED
        BY <2>1, <2>3, <4>2, <4>3 DEF ToSet
    <3>2. ASSUME NEW x \in ToSet(s) \ {k} PROVE x \in ToSet(w)
      <4>1. PICK a \in 1..Len(s) : x = s[a]
        BY <2>3 DEF ToSet
      <4>2. PICK i \in 1..(Len(s) - 1) : old(i) = a
        BY <2>1, <2>5, <4>1
      <4>3. x = w[i]
        BY <2>2, <4>1, <4>2
      <4>4. QED
        BY <2>3, <4>3 DEF ToSet
    <3>3. QED
      BY <3>1, <3>2
  <2>9. ASSUME NEW i \in DOMAIN w, NEW j \in DOMAIN w, i < j
        PROVE  \E a, b \in DOMAIN s : a < b /\ s[a] = w[i] /\ s[b] = w[j]
    <3>1. i \in 1..(Len(s) - 1) /\ j \in 1..(Len(s) - 1)
      BY <2>3
    <3>2. /\ old(i) \in 1..Len(s) /\ old(j) \in 1..Len(s) /\ old(i) < old(j)
          /\ s[old(i)] = w[i] /\ s[old(j)] = w[j]
      BY <2>2, <2>4, <2>6, <2>9, <3>1
    <3>3. QED
      BY <2>3, <3>2
  <2>10. QED
    BY <1>2, <2>1, <2>2, <2>7, <2>8, <2>9 DEF w
<1>3. QED
  BY <1>1, <1>2

\* Appending a new key to a sequence without repetitions.
LEMMA AppendNewKey ==
  ASSUME NEW S, NEW s \in Seq(S), NEW k \in S, IsInjective(s), k \notin ToSet(s)
  PROVE  /\ Append(s, k) \in Seq(S)
         /\ IsInjective(Append(s, k))
         /\ ToSet(Append(s, k)) = ToSet(s) \union {k}
         /\ Len(Append(s, k)) = Len(s) + 1
         /\ Append(s, k)[Len(s) + 1] = k
         /\ \A i \in 1..Len(s) : Append(s, k)[i] = s[i]
<1> DEFINE t == Append(s, k)
<1>1. Len(s) \in Nat /\ DOMAIN s = 1..Len(s)
  OBVIOUS
<1>2. t \in Seq(S) /\ Len(t) = Len(s) + 1 /\ t[Len(s) + 1] = k
  OBVIOUS
<1>3. \A i \in 1..Len(s) : t[i] = s[i]
  OBVIOUS
<1>4. DOMAIN t = 1..(Len(s) + 1)
  BY <1>2
<1> HIDE DEF t
<1>5. IsInjective(t)
  BY <1>1, <1>2, <1>3, <1>4 DEF IsInjective, ToSet
<1>6. ToSet(t) = ToSet(s) \union {k}
  BY <1>1, <1>2, <1>3, <1>4 DEF ToSet
<1>7. QED
  BY <1>2, <1>3, <1>5, <1>6 DEF t

\* Dropping the first key of a sequence without repetitions.
LEMMA TailProperties ==
  ASSUME NEW S, NEW s \in Seq(S), IsInjective(s), s # <<>>
  PROVE  /\ Tail(s) \in Seq(S)
         /\ IsInjective(Tail(s))
         /\ Head(s) \in ToSet(s)
         /\ ToSet(Tail(s)) = ToSet(s) \ {Head(s)}
         /\ Len(s) > 0 /\ Len(Tail(s)) = Len(s) - 1
         /\ \A i \in 1..Len(Tail(s)) : Tail(s)[i] = s[i + 1]
<1>1. /\ Tail(s) \in Seq(S) /\ Len(s) \in Nat \ {0} /\ Len(Tail(s)) = Len(s) - 1
      /\ DOMAIN s = 1..Len(s) /\ DOMAIN Tail(s) = 1..(Len(s) - 1)
      /\ Head(s) = s[1]
      /\ \A i \in 1..(Len(s) - 1) : Tail(s)[i] = s[i + 1]
  OBVIOUS
<1>2. IsInjective(Tail(s))
  BY <1>1 DEF IsInjective
<1>3. ToSet(Tail(s)) = ToSet(s) \ {s[1]}
  <2>1. ASSUME NEW x \in ToSet(Tail(s)) PROVE x \in ToSet(s) \ {s[1]}
    BY <1>1 DEF ToSet, IsInjective
  <2>2. ASSUME NEW x \in ToSet(s) \ {s[1]} PROVE x \in ToSet(Tail(s))
    <3>1. PICK a \in 2..Len(s) : x = s[a]
      BY <1>1 DEF ToSet
    <3>2. a - 1 \in 1..(Len(s) - 1) /\ Tail(s)[a - 1] = x
      BY <1>1, <3>1
    <3>3. QED
      BY <1>1, <3>2 DEF ToSet
  <2>3. QED
    BY <2>1, <2>2
<1>4. Head(s) \in ToSet(s)
  BY <1>1 DEF ToSet
<1>5. QED
  BY <1>1, <1>2, <1>3, <1>4

\* In t, k comes last and the other keys are in the order they have in s.
LastAfter(s, k, t) ==
  \A i, j \in DOMAIN t : i < j =>
    \/ t[j] = k /\ t[i] \in ToSet(s) \ {k}
    \/ \E a, b \in DOMAIN s :
         a < b /\ s[a] = t[i] /\ s[b] = t[j] /\ s[a] # k /\ s[b] # k

\* Moving a key to the end, or adding it there.
LEMMA RenewedProperties ==
  ASSUME NEW S, NEW s \in Seq(S), NEW k \in S, IsInjective(s)
  PROVE  /\ Renewed(s, k) \in Seq(S)
         /\ IsInjective(Renewed(s, k))
         /\ ToSet(Renewed(s, k)) = ToSet(s) \union {k}
         /\ k \in ToSet(s) => Len(Renewed(s, k)) = Len(s)
         /\ k \notin ToSet(s) => Len(Renewed(s, k)) = Len(s) + 1
         /\ LastAfter(s, k, Renewed(s, k))
<1> DEFINE w == Without(s, k)
           r == Renewed(s, k)
<1>1. /\ w \in Seq(S) /\ IsInjective(w) /\ ToSet(w) = ToSet(s) \ {k}
      /\ k \in ToSet(s) => Len(w) = Len(s) - 1
      /\ \A i, j \in DOMAIN w : i < j =>
           \E a, b \in DOMAIN s : a < b /\ s[a] = w[i] /\ s[b] = w[j]
  BY WithoutProperties
<1>2. k \notin ToSet(s) => w = s
  BY DEF Without
<1>3. r = Append(w, k) /\ k \notin ToSet(w)
  BY <1>1 DEF Renewed
<1> HIDE DEF w, r
<1>4. /\ r \in Seq(S) /\ IsInjective(r) /\ ToSet(r) = ToSet(w) \union {k}
      /\ Len(r) = Len(w) + 1 /\ r[Len(w) + 1] = k
      /\ \A i \in 1..Len(w) : r[i] = w[i]
  BY <1>1, <1>3, AppendNewKey
<1>5. Len(w) \in Nat /\ Len(s) \in Nat /\ DOMAIN s = 1..Len(s)
      /\ DOMAIN w = 1..Len(w) /\ DOMAIN r = 1..(Len(w) + 1)
  BY <1>1, <1>4
<1>6. \A i \in 1..Len(w) : w[i] \in ToSet(s) \ {k}
  BY <1>1, <1>5 DEF ToSet
<1>7. ASSUME NEW i \in DOMAIN r, NEW j \in DOMAIN r, i < j
      PROVE  \/ r[j] = k /\ r[i] \in ToSet(s) \ {k}
             \/ \E a, b \in DOMAIN s :
                  a < b /\ s[a] = r[i] /\ s[b] = r[j] /\ s[a] # k /\ s[b] # k
  <2>1. i \in 1..Len(w) /\ r[i] = w[i] /\ w[i] \in ToSet(s) \ {k}
    BY <1>4, <1>5, <1>6, <1>7
  <2>2. CASE j = Len(w) + 1
    BY <1>4, <2>1, <2>2
  <2>3. CASE j # Len(w) + 1
    <3>1. j \in 1..Len(w) /\ r[j] = w[j] /\ w[j] # k
      BY <1>4, <1>5, <1>6, <2>3
    <3>2. PICK a, b \in DOMAIN s : a < b /\ s[a] = w[i] /\ s[b] = w[j]
      BY <1>1, <1>5, <1>7, <2>1, <3>1
    <3>3. QED
      BY <1>5, <2>1, <3>1, <3>2
  <2>4. QED
    BY <2>2, <2>3
<1>8. ToSet(r) = ToSet(s) \union {k}
  BY <1>1, <1>4
<1>9. /\ k \in ToSet(s) => Len(r) = Len(s)
      /\ k \notin ToSet(s) => Len(r) = Len(s) + 1
  <2>1. CASE k \in ToSet(s)
    <3>1. Len(w) = Len(s) - 1 /\ Len(r) = Len(w) + 1
      BY <1>1, <1>4, <2>1
    <3>2. Len(r) = Len(s)
      BY <1>5, <3>1
    <3>3. QED
      BY <2>1, <3>2
  <2>2. CASE k \notin ToSet(s)
    BY <1>2, <1>4, <2>2
  <2>3. QED
    BY <2>1, <2>2
<1>10. QED
  BY <1>4, <1>7, <1>8, <1>9 DEF r, LastAfter

\* Dropping the first key to make room for a new one.
LEMMA ReplaceFirst ==
  ASSUME NEW S, NEW s \in Seq(S), NEW k \in S, IsInjective(s), s # <<>>,
         k \notin ToSet(s)
  PROVE  /\ Head(s) \in ToSet(s)
         /\ Append(Tail(s), k) \in Seq(S)
         /\ IsInjective(Append(Tail(s), k))
         /\ ToSet(Append(Tail(s), k)) = (ToSet(s) \ {Head(s)}) \union {k}
         /\ Len(Append(Tail(s), k)) = Len(s)
         /\ LastAfter(s, k, Append(Tail(s), k))
<1> DEFINE t == Tail(s)
           r == Append(Tail(s), k)
<1>1. /\ t \in Seq(S) /\ IsInjective(t) /\ Head(s) \in ToSet(s)
      /\ ToSet(t) = ToSet(s) \ {Head(s)} /\ Len(t) = Len(s) - 1 /\ Len(s) > 0
      /\ \A i \in 1..Len(t) : t[i] = s[i + 1]
  BY TailProperties
<1>2. r = Append(t, k)
  OBVIOUS
<1> HIDE DEF t, r
<1>3. /\ r \in Seq(S) /\ IsInjective(r) /\ ToSet(r) = ToSet(t) \union {k}
      /\ Len(r) = Len(t) + 1 /\ r[Len(t) + 1] = k
      /\ \A i \in 1..Len(t) : r[i] = t[i]
  BY <1>1, <1>2, AppendNewKey
<1>4. /\ Len(s) \in Nat \ {0} /\ Len(r) = Len(s)
      /\ DOMAIN s = 1..Len(s) /\ DOMAIN r = 1..Len(s)
      /\ \A i \in 1..(Len(s) - 1) : r[i] = s[i + 1]
      /\ r[Len(s)] = k
  BY <1>1, <1>3
<1>5. LastAfter(s, k, r)
  <2>1. ASSUME NEW i \in DOMAIN r, NEW j \in DOMAIN r, i < j
        PROVE  \/ r[j] = k /\ r[i] \in ToSet(s) \ {k}
               \/ \E a, b \in DOMAIN s :
                    a < b /\ s[a] = r[i] /\ s[b] = r[j] /\ s[a] # k /\ s[b] # k
    <3>1. /\ i \in 1..(Len(s) - 1) /\ i + 1 \in DOMAIN s /\ r[i] = s[i + 1]
          /\ s[i + 1] \in ToSet(s) \ {k}
      BY <1>4, <2>1 DEF ToSet
    <3>2. CASE j = Len(s)
      BY <1>4, <3>1, <3>2
    <3>3. CASE j # Len(s)
      <4>1. /\ j + 1 \in DOMAIN s /\ i + 1 < j + 1 /\ r[j] = s[j + 1]
            /\ s[j + 1] # k
        BY <1>4, <2>1, <3>3 DEF ToSet
      <4>2. QED
        BY <3>1, <4>1
    <3>4. QED
      BY <3>2, <3>3
  <2>2. QED
    BY <2>1 DEF LastAfter
<1>6. ToSet(r) = (ToSet(s) \ {Head(s)}) \union {k}
  BY <1>1, <1>3
<1>7. QED
  BY <1>1, <1>3, <1>4, <1>5, <1>6 DEF r

=============================================================================
