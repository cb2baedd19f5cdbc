-------------------------- MODULE MessageStoreProofs --------------------------
(***************************************************************************)
(* Proofs about the module MessageStore, for every set of locales, routes, *)
(* segments, keys, dictionaries, files and requests, for every adapter and *)
(* for any number of calls: the type invariant; what is set reads back; a  *)
(* component at rest shows what t() answers; entries share no object, and  *)
(* the objects of the application stay as they are; a page has its file    *)
(* and its root's leaves after a load; and a dump answers as t() does.     *)
(*                                                                         *)
(* The invariants: OwnInv, an entry holds nothing, the object made for it  *)
(* or one that the application had stored, and every object is a tree;     *)
(* ViewInv, what was rendered is what t() answers for as long as the       *)
(* snapshot is the one that was rendered, for every write raises the       *)
(* revision and no revision comes back; CountInv, a revision is a write.   *)
(*                                                                         *)
(* What a load stores is a fold over a set of files.  The fold is followed *)
(* from the empty set, one file after the other: FilesStored says that it  *)
(* is the value of a recursive function, and SubsetInduction that what the *)
(* empty set has and each file keeps, every set of files has.              *)
(***************************************************************************)
EXTENDS MessageStore, TLAPS, SequenceTheorems, WellFoundedInduction, FiniteSetTheorems

-----------------------------------------------------------------------------
(* Positions and trees *)

\* A prefix, name by name.
LEMMA PrefixPoints ==
  ASSUME NEW S, NEW p \in Seq(S), NEW q \in Seq(S)
  PROVE  IsPrefix(p, q) <=> Len(p) <= Len(q) /\ \A n \in 1..Len(p) : p[n] = q[n]
<1>0. Len(p) \in Nat /\ Len(q) \in Nat
  BY LenProperties
<1>1. SubSeq(p, 1, Len(p)) = p
  BY SubSeqFull
<1>2. CASE Len(p) <= Len(q)
  <2>1. /\ SubSeq(q, 1, Len(p)) \in Seq(S)
        /\ Len(SubSeq(q, 1, Len(p))) = Len(p)
        /\ \A n \in 1..Len(p) : SubSeq(q, 1, Len(p))[n] = q[n]
    BY <1>0, <1>2, SubSeqProperties
  <2>2. p = SubSeq(q, 1, Len(p)) <=> \A n \in 1..Len(p) : p[n] = SubSeq(q, 1, Len(p))[n]
    BY <2>1, SeqEqual
  <2> QED
    BY <1>1, <1>2, <2>1, <2>2 DEF IsPrefix
<1> QED
  BY <1>2 DEF IsPrefix

\* Two positions are comparable when they agree as far as both go.
LEMMA ComparablePoints ==
  ASSUME NEW S, NEW p \in Seq(S), NEW q \in Seq(S)
  PROVE  Comparable(p, q) <=> \A n \in 1..Len(p) : n <= Len(q) => p[n] = q[n]
<1>0. Len(p) \in Nat /\ Len(q) \in Nat
  BY LenProperties
<1>1. IsPrefix(p, q) <=> Len(p) <= Len(q) /\ \A n \in 1..Len(p) : p[n] = q[n]
  BY PrefixPoints
<1>2. IsPrefix(q, p) <=> Len(q) <= Len(p) /\ \A n \in 1..Len(q) : q[n] = p[n]
  BY PrefixPoints
<1> QED
  BY <1>0, <1>1, <1>2 DEF Comparable

\* The first d names of a position, name by name.
LEMMA CutPoints ==
  ASSUME NEW S, NEW p \in Seq(S), NEW d \in Nat
  PROVE  /\ Cut(p, d) \in Seq(S)
         /\ Len(Cut(p, d)) = IF d < Len(p) THEN d ELSE Len(p)
         /\ \A n \in 1..Len(Cut(p, d)) : Cut(p, d)[n] = p[n]
<1>0. Len(p) \in Nat
  BY LenProperties
<1> DEFINE m == IF d < Len(p) THEN d ELSE Len(p)
<1>1. m \in Nat /\ m <= Len(p)
  BY <1>0
<1>2. \A n \in 1..m : n \in 1..Len(p)
  BY <1>0, <1>1
<1>3. Cut(p, d) = SubSeq(p, 1, m)
  BY DEF Cut
<1> HIDE DEF m
<1>4. /\ SubSeq(p, 1, m) \in Seq(S)
      /\ Len(SubSeq(p, 1, m)) = m
      /\ \A n \in 1..m : SubSeq(p, 1, m)[n] = p[n]
  <2>1. SubSeq(p, 1, m) \in Seq(S) /\ Len(SubSeq(p, 1, m)) = IF 1 <= m THEN m - 1 + 1 ELSE 0
    BY <1>0, <1>1, <1>2, SubSeqProperties
  <2>2. Len(SubSeq(p, 1, m)) = m
    BY <1>1, <2>1
  <2>3. \A n \in 1..m : SubSeq(p, 1, m)[n] = p[n]
    BY <1>0, <1>1, <1>2, SubSeqProperties
  <2> QED
    BY <2>1, <2>2, <2>3
<1> QED
  BY <1>3, <1>4 DEF m

\* Positions of which one leads to the other do so at every depth.
LEMMA CutComparable ==
  ASSUME NEW p \in Positions, NEW q \in Positions, NEW d \in Nat, Comparable(p, q)
  PROVE  Comparable(Cut(p, d), Cut(q, d))
<1>0. p \in Seq(Names) /\ q \in Seq(Names) /\ Len(p) \in Nat /\ Len(q) \in Nat
  BY LenProperties DEF Positions
<1>1. \A n \in 1..Len(p) : n <= Len(q) => p[n] = q[n]
  BY <1>0, ComparablePoints
<1>2. /\ Cut(p, d) \in Seq(Names) /\ Cut(q, d) \in Seq(Names)
      /\ Len(Cut(p, d)) = IF d < Len(p) THEN d ELSE Len(p)
      /\ Len(Cut(q, d)) = IF d < Len(q) THEN d ELSE Len(q)
      /\ \A n \in 1..Len(Cut(p, d)) : Cut(p, d)[n] = p[n]
      /\ \A n \in 1..Len(Cut(q, d)) : Cut(q, d)[n] = q[n]
  BY <1>0, CutPoints
<1>3. \A n \in 1..Len(Cut(p, d)) : n <= Len(Cut(q, d)) => Cut(p, d)[n] = Cut(q, d)[n]
  BY <1>0, <1>1, <1>2
<1> QED
  BY <1>2, <1>3, ComparablePoints

LEMMA ComparableSymmetric ==
  ASSUME NEW p, NEW q
  PROVE  Comparable(p, q) <=> Comparable(q, p)
  BY DEF Comparable

LEMMA EmptyIsObject == IsObject(Undefined)
  BY DEF IsObject, WellFormed, Undefined

\* Merging keeps trees trees, to whatever depth.
LEMMA MergeIsObject ==
  ASSUME NEW target, NEW source, NEW depth \in Nat, IsObject(target), IsObject(source)
  PROVE  IsObject(Merge(target, source, depth))
<1> DEFINE kept == {q \in DOMAIN target :
                      \A p \in DOMAIN source : ~Comparable(Cut(p, depth), Cut(q, depth))}
<1>1. DOMAIN Merge(target, source, depth) = DOMAIN source \union kept
  BY DEF Merge, Over
<1>2. \A p \in DOMAIN source, q \in kept : ~Comparable(p, q) /\ ~Comparable(q, p)
  BY CutComparable, ComparableSymmetric DEF IsObject, WellFormed
<1>3. kept \subseteq DOMAIN target
  OBVIOUS
<1> HIDE DEF kept
<1>4. \A p, q \in DOMAIN source \union kept : Comparable(p, q) => p = q
  BY <1>2, <1>3 DEF IsObject, WellFormed
<1> QED
  BY <1>1, <1>3, <1>4 DEF IsObject, WellFormed

LEMMA MergedObjects ==
  ASSUME NEW target, NEW source, IsObject(target), IsObject(source)
  PROVE  IsObject(assign(target, source)) /\ IsObject(deepMergeTranslations(target, source))
  BY MergeIsObject DEF assign, deepMergeTranslations

-----------------------------------------------------------------------------
\* Where a tree keeps a key: a position, and never the empty one.
LEMMA PlacePoints ==
  ASSUME NEW tree, NEW key \in Names \ {<<>>}
  PROVE  /\ Len(key) \in Nat \ {0}
         /\ Place(tree, key) \in Positions
         /\ hasFlat(tree, key) => Place(tree, key) = << key >>
         /\ ~hasFlat(tree, key) =>
              /\ Len(Place(tree, key)) = Len(key)
              /\ \A n \in 1..Len(key) : Place(tree, key)[n] = << key[n] >>
         /\ Len(Place(tree, key)) \in Nat \ {0}
<1>1. /\ key \in Seq(Segments) /\ Len(key) \in Nat /\ DOMAIN key = 1..Len(key)
      /\ \A n \in 1..Len(key) : key[n] \in Segments
  BY LenProperties, ElementOfSeq DEF Names
<1>2. Len(key) # 0
  BY <1>1, EmptySeq
<1>3. CASE hasFlat(tree, key)
  BY <1>1, <1>2, <1>3 DEF Place, Positions, Names
<1>4. CASE ~hasFlat(tree, key)
  <2> DEFINE p == [n \in 1..Len(key) |-> << key[n] >>]
  <2>1. p \in Seq(Names)
    <3>1. \A n \in 1..Len(key) : << key[n] >> \in Names
      BY <1>1 DEF Names
    <3> QED
      BY <1>1, <3>1, IsASeq
  <2>2. Len(p) = Len(key)
    BY <1>1, <2>1, LenProperties
  <2>3. Place(tree, key) = p
    BY <1>1, <1>4 DEF Place
  <2> QED
    BY <1>1, <1>2, <1>4, <2>1, <2>2, <2>3 DEF Positions
<1> QED
  BY <1>3, <1>4

\* A position continued, name by name, and what is left of it.
LEMMA ConcatPoints ==
  ASSUME NEW p \in Positions, NEW r \in Positions
  PROVE  /\ p \o r \in Positions
         /\ Len(p) \in Nat /\ Len(r) \in Nat
         /\ Len(p \o r) = Len(p) + Len(r)
         /\ \A n \in 1..Len(p) : (p \o r)[n] = p[n]
         /\ \A n \in 1..Len(r) : (p \o r)[Len(p) + n] = r[n]
         /\ SubSeq(p \o r, Len(p) + 1, Len(p \o r)) = r
         /\ IsPrefix(p, p \o r)
<1>1. p \in Seq(Names) /\ r \in Seq(Names) /\ Len(p) \in Nat /\ Len(r) \in Nat
  BY LenProperties DEF Positions
<1>2. /\ p \o r \in Seq(Names)
      /\ Len(p \o r) = Len(p) + Len(r)
      /\ \A n \in 1..(Len(p) + Len(r)) : (p \o r)[n] = IF n <= Len(p) THEN p[n] ELSE r[n - Len(p)]
  BY <1>1, ConcatProperties
<1>3. \A n \in 1..Len(p) : (p \o r)[n] = p[n]
  BY <1>1, <1>2
<1>4. \A n \in 1..Len(r) : (p \o r)[Len(p) + n] = r[n]
  BY <1>1, <1>2
<1>5. SubSeq(p \o r, Len(p) + 1, Len(p \o r)) = r
  BY <1>1, <1>2, SubSeqOfConcat2, SubSeqFull
<1>6. IsPrefix(p, p \o r)
  <2>1. p \o r \in Seq(Names) /\ Len(p) <= Len(p \o r)
    BY <1>1, <1>2
  <2> HIDE DEF IsPrefix
  <2>2. IsPrefix(p, p \o r) <=> Len(p) <= Len(p \o r) /\ \A n \in 1..Len(p) : p[n] = (p \o r)[n]
    BY <1>1, <2>1, PrefixPoints
  <2> QED
    BY <1>3, <2>1, <2>2
<1> QED
  BY <1>1, <1>2, <1>3, <1>4, <1>5, <1>6 DEF Positions

\* A position is its prefix and the rest.
LEMMA PrefixSplits ==
  ASSUME NEW p \in Positions, NEW q \in Positions, IsPrefix(p, q)
  PROVE  LET r == SubSeq(q, Len(p) + 1, Len(q)) IN r \in Positions /\ q = p \o r
<1>1. p \in Seq(Names) /\ q \in Seq(Names) /\ Len(p) \in Nat /\ Len(q) \in Nat
  BY LenProperties DEF Positions
<1>2. Len(p) <= Len(q) /\ \A n \in 1..Len(p) : p[n] = q[n]
  BY <1>1, PrefixPoints
<1> DEFINE r == SubSeq(q, Len(p) + 1, Len(q))
<1>3. /\ r \in Seq(Names)
      /\ Len(r) = IF Len(p) + 1 <= Len(q) THEN Len(q) - (Len(p) + 1) + 1 ELSE 0
      /\ \A n \in 1..(Len(q) - (Len(p) + 1) + 1) : r[n] = q[Len(p) + 1 + n - 1]
  <2>1. Len(p) + 1 \in Int /\ Len(q) \in Int
    BY <1>1
  <2>2. \A n \in (Len(p) + 1)..Len(q) : q[n] \in Names
    BY <1>1, ElementOfSeq
  <2> QED
    BY <2>1, <2>2, SubSeqProperties
<1>4. Len(r) = Len(q) - Len(p) /\ \A n \in 1..(Len(q) - Len(p)) : r[n] = q[Len(p) + n]
  BY <1>1, <1>2, <1>3
<1> HIDE DEF r
<1>5. /\ p \o r \in Seq(Names) /\ Len(p \o r) = Len(q)
      /\ \A n \in 1..Len(q) : (p \o r)[n] = IF n <= Len(p) THEN p[n] ELSE r[n - Len(p)]
  BY <1>1, <1>3, <1>4, ConcatProperties
<1>6. \A n \in 1..Len(q) : (p \o r)[n] = q[n]
  <2> SUFFICES ASSUME NEW n \in 1..Len(q) PROVE (p \o r)[n] = q[n]
    OBVIOUS
  <2>1. CASE n <= Len(p)
    BY <1>1, <1>2, <1>5, <2>1
  <2>2. CASE ~(n <= Len(p))
    <3>1. n - Len(p) \in 1..(Len(q) - Len(p)) /\ Len(p) + (n - Len(p)) = n
      BY <1>1, <2>2
    <3> QED
      BY <1>4, <1>5, <2>2, <3>1
  <2> QED
    BY <2>1, <2>2
<1>7. q = p \o r
  BY <1>1, <1>5, <1>6, SeqEqual
<1> QED
  BY <1>3, <1>7 DEF r, Positions

\* What is comparable with something below p is comparable with p.
LEMMA BelowComparable ==
  ASSUME NEW p \in Positions, NEW r \in Positions, NEW q \in Positions, Comparable(p \o r, q)
  PROVE  Comparable(p, q)
<1>1. /\ p \in Seq(Names) /\ q \in Seq(Names) /\ p \o r \in Seq(Names)
      /\ Len(p) \in Nat /\ Len(q) \in Nat /\ Len(r) \in Nat
      /\ Len(p \o r) = Len(p) + Len(r)
      /\ \A n \in 1..Len(p) : (p \o r)[n] = p[n]
  BY ConcatPoints, LenProperties DEF Positions
<1> DEFINE pr == p \o r
<1> HIDE DEF pr
<1>2. \A n \in 1..Len(pr) : n <= Len(q) => pr[n] = q[n]
  BY <1>1, ComparablePoints DEF pr
<1>3. \A n \in 1..Len(p) : n <= Len(q) => p[n] = q[n]
  BY <1>1, <1>2 DEF pr
<1> QED
  BY <1>1, <1>3, ComparablePoints

\* Two positions below one compare as their rests do.
LEMMA BothBelow ==
  ASSUME NEW p \in Positions, NEW r \in Positions, NEW s \in Positions,
         Comparable(p \o r, p \o s)
  PROVE  Comparable(r, s)
<1>1. /\ p \in Seq(Names) /\ r \in Seq(Names) /\ s \in Seq(Names)
      /\ p \o r \in Seq(Names) /\ p \o s \in Seq(Names)
      /\ Len(p) \in Nat /\ Len(s) \in Nat /\ Len(r) \in Nat
      /\ Len(p \o r) = Len(p) + Len(r) /\ Len(p \o s) = Len(p) + Len(s)
      /\ \A n \in 1..Len(r) : (p \o r)[Len(p) + n] = r[n]
      /\ \A n \in 1..Len(s) : (p \o s)[Len(p) + n] = s[n]
  BY ConcatPoints, LenProperties DEF Positions
<1> DEFINE pr == p \o r
           ps == p \o s
<1> HIDE DEF pr, ps
<1>2. \A n \in 1..Len(pr) : n <= Len(ps) => pr[n] = ps[n]
  BY <1>1, ComparablePoints DEF pr, ps
<1>3. ASSUME NEW n \in 1..Len(r), n <= Len(s)
      PROVE  r[n] = s[n]
  <2>1. Len(p) + n \in 1..Len(pr) /\ Len(p) + n <= Len(ps) /\ n \in 1..Len(s)
    BY <1>1, <1>3 DEF pr, ps
  <2>2. pr[Len(p) + n] = ps[Len(p) + n]
    BY <1>2, <2>1
  <2> QED
    BY <1>1, <2>1, <2>2 DEF pr, ps
<1> QED
  BY <1>1, <1>3, ComparablePoints

\* The positions of a tree after a value is placed at p.
LEMMA PlantedDomain ==
  ASSUME NEW tree, NEW p, NEW value
  PROVE  DOMAIN Plant(Clear(tree, {p}), p, value)
           = {p \o r : r \in DOMAIN value} \union {q \in DOMAIN tree : ~Comparable(p, q)}
<1>1. DOMAIN Clear(tree, {p}) = {q \in DOMAIN tree : ~Comparable(p, q)}
  BY DEF Clear
<1> QED
  BY <1>1 DEF Plant, Over

\* A value planted where nothing stands leaves a tree.
LEMMA PlantedIsObject ==
  ASSUME NEW tree, NEW p \in Positions, NEW value, IsObject(tree), WellFormed(value),
         Len(p) \in Nat \ {0}
  PROVE  IsObject(Plant(Clear(tree, {p}), p, value))
<1> DEFINE new == Plant(Clear(tree, {p}), p, value)
           old == {q \in DOMAIN tree : ~Comparable(p, q)}
<1>1. DOMAIN new = {p \o r : r \in DOMAIN value} \union old
  BY PlantedDomain
<1> HIDE DEF new
<1>2. /\ DOMAIN value \subseteq Positions /\ DOMAIN tree \subseteq Positions
      /\ \A r, s \in DOMAIN value : Comparable(r, s) => r = s
      /\ \A r, s \in DOMAIN tree : Comparable(r, s) => r = s
      /\ <<>> \notin DOMAIN tree
  BY DEF IsObject, WellFormed
<1>3. DOMAIN new \subseteq Positions
  BY <1>1, <1>2, ConcatPoints
<1>4. \A r \in DOMAIN value : p \o r # <<>>
  <2> SUFFICES ASSUME NEW r \in DOMAIN value PROVE p \o r # <<>>
    OBVIOUS
  <2>1. Len(p \o r) = Len(p) + Len(r) /\ Len(r) \in Nat
    BY <1>2, ConcatPoints
  <2>2. Len(p \o r) # 0
    BY <2>1
  <2> QED
    BY <2>2
<1>5. \A r \in DOMAIN value, q \in old : ~Comparable(p \o r, q) /\ ~Comparable(q, p \o r)
  BY <1>2, BelowComparable, ComparableSymmetric
<1>6. \A r, s \in DOMAIN value : Comparable(p \o r, p \o s) => p \o r = p \o s
  BY <1>2, BothBelow
<1> HIDE DEF old
<1>7. \A x, y \in DOMAIN new : Comparable(x, y) => x = y
  <2> SUFFICES ASSUME NEW x \in DOMAIN new, NEW y \in DOMAIN new, Comparable(x, y)
               PROVE  x = y
    OBVIOUS
  <2>1. CASE x \in old /\ y \in old
    BY <1>2, <2>1 DEF old
  <2>2. CASE x \in old /\ y \notin old
    BY <1>1, <1>5, <2>2
  <2>3. CASE x \notin old /\ y \in old
    BY <1>1, <1>5, <2>3
  <2>4. CASE x \notin old /\ y \notin old
    BY <1>1, <1>6, <2>4
  <2> QED
    BY <2>1, <2>2, <2>3, <2>4
<1>8. <<>> \notin DOMAIN new
  BY <1>1, <1>2, <1>4 DEF old
<1> QED
  BY <1>3, <1>7, <1>8 DEF new, IsObject, WellFormed

\* setTranslationAtKey leaves a tree.
LEMMA SetIsObject ==
  ASSUME NEW tree, NEW key \in Names \ {<<>>}, NEW value, IsObject(tree), WellFormed(value)
  PROVE  IsObject(setTranslationAtKey(tree, key, value))
<1>1. Place(tree, key) \in Positions /\ Len(Place(tree, key)) \in Nat \ {0}
  BY PlacePoints
<1>2. setTranslationAtKey(tree, key, value)
        = Plant(Clear(tree, {Place(tree, key)}), Place(tree, key), value)
  BY DEF setTranslationAtKey
<1> QED
  BY <1>1, <1>2, PlantedIsObject

\* The value that was placed at p is what stands at p.
LEMMA PlantedReadsBack ==
  ASSUME NEW tree, NEW p \in Positions, NEW value, IsObject(tree), WellFormed(value),
         value = [r \in DOMAIN value |-> value[r]]
  PROVE  getAt(Plant(Clear(tree, {p}), p, value), p) = value
<1> DEFINE new   == Plant(Clear(tree, {p}), p, value)
           below == {q \in DOMAIN new : IsPrefix(p, q)}
           rest(q) == SubSeq(q, Len(p) + 1, Len(q))
<1>1. DOMAIN new = {p \o r : r \in DOMAIN value} \union {q \in DOMAIN tree : ~Comparable(p, q)}
  BY PlantedDomain
<1>2. DOMAIN value \subseteq Positions
  BY DEF WellFormed
<1>3. \A r \in DOMAIN value : new[p \o r] = value[r]
  <2> SUFFICES ASSUME NEW r \in DOMAIN value PROVE new[p \o r] = value[r]
    OBVIOUS
  <2>1. rest(p \o r) = r
    BY <1>2, ConcatPoints
  <2> QED
    BY <2>1 DEF Plant, Over
<1>4. getAt(new, p) = [r \in {rest(q) : q \in below} |-> new[p \o r]]
  BY DEF getAt
<1> HIDE DEF new
<1>5. below = {p \o r : r \in DOMAIN value}
  <2>1. \A q \in below : q \in {p \o r : r \in DOMAIN value}
    BY <1>1 DEF Comparable
  <2>2. \A r \in DOMAIN value : p \o r \in below
    BY <1>1, <1>2, ConcatPoints
  <2> QED
    BY <2>1, <2>2
<1> HIDE DEF below
<1>6. {rest(q) : q \in below} = DOMAIN value
  <2>1. \A r \in DOMAIN value : rest(p \o r) = r
    BY <1>2, ConcatPoints
  <2> HIDE DEF rest
  <2>2. \A q \in below : rest(q) \in DOMAIN value
    BY <1>5, <2>1
  <2>3. \A r \in DOMAIN value : \E q \in below : rest(q) = r
    BY <1>5, <2>1
  <2> QED
    BY <2>2, <2>3
<1> HIDE DEF rest
<1>7. getAt(new, p) = [r \in DOMAIN value |-> value[r]]
  BY <1>3, <1>4, <1>6
<1> QED
  BY <1>7 DEF new

\* What stands beside p stays.
LEMMA PlantedStaysBeside ==
  ASSUME NEW tree, NEW p \in Positions, NEW value, NEW o \in Positions,
         IsObject(tree), WellFormed(value), ~Comparable(p, o)
  PROVE  getAt(Plant(Clear(tree, {p}), p, value), o) = getAt(tree, o)
<1> DEFINE new == Plant(Clear(tree, {p}), p, value)
           rest(q) == SubSeq(q, Len(o) + 1, Len(q))
           belowNew == {q \in DOMAIN new : IsPrefix(o, q)}
           belowOld == {q \in DOMAIN tree : IsPrefix(o, q)}
<1>1. DOMAIN new = {p \o r : r \in DOMAIN value} \union {q \in DOMAIN tree : ~Comparable(p, q)}
  BY PlantedDomain
<1>2. DOMAIN value \subseteq Positions /\ DOMAIN tree \subseteq Positions
  BY DEF IsObject, WellFormed
<1>3. \A q \in Positions : IsPrefix(o, q) => ~Comparable(p, q)
  <2> SUFFICES ASSUME NEW q \in Positions, IsPrefix(o, q), Comparable(p, q) PROVE FALSE
    OBVIOUS
  <2>1. PICK r \in Positions : q = o \o r
    BY PrefixSplits
  <2>2. Comparable(o \o r, p)
    BY <2>1, ComparableSymmetric
  <2> QED
    BY <2>2, BelowComparable, ComparableSymmetric
<1>4. \A r \in DOMAIN value : ~IsPrefix(o, p \o r)
  <2> SUFFICES ASSUME NEW r \in DOMAIN value, IsPrefix(o, p \o r) PROVE FALSE
    OBVIOUS
  <2>1. p \o r \in Positions /\ IsPrefix(p, p \o r)
    BY <1>2, ConcatPoints
  <2> QED
    BY <1>3, <2>1 DEF Comparable
<1>5. belowNew = belowOld
  <2> HIDE DEF new
  <2> QED
    BY <1>1, <1>2, <1>3, <1>4
<1>6. \A q \in belowOld : new[q] = tree[q]
  <2> SUFFICES ASSUME NEW q \in belowOld PROVE new[q] = tree[q]
    OBVIOUS
  <2>1. q \in DOMAIN tree /\ ~Comparable(p, q) /\ \A r \in DOMAIN value : q # p \o r
    BY <1>2, <1>3, <1>4
  <2>2. q \in DOMAIN Clear(tree, {p}) /\ Clear(tree, {p})[q] = tree[q]
    BY <2>1 DEF Clear
  <2> QED
    BY <2>1, <2>2 DEF Plant, Over
<1>7. \A q \in belowOld : q = o \o rest(q)
  BY <1>2, PrefixSplits
<1>8. getAt(new, o) = [r \in {rest(q) : q \in belowNew} |-> new[o \o r]]
  BY DEF getAt
<1>9. getAt(tree, o) = [r \in {rest(q) : q \in belowOld} |-> tree[o \o r]]
  BY DEF getAt
<1> HIDE DEF new, rest, belowNew, belowOld
<1>10. \A r \in {rest(q) : q \in belowOld} : new[o \o r] = tree[o \o r]
  BY <1>6, <1>7
<1>11. getAt(new, o) = getAt(tree, o)
  BY <1>5, <1>8, <1>9, <1>10
<1> QED
  BY <1>11 DEF new

\* Where a tree keeps a key that was set is where it kept it before.
LEMMA SetKeepsPlace ==
  ASSUME NEW tree, NEW key \in Names \ {<<>>}, NEW value, IsObject(tree), WellFormed(value),
         DOMAIN value # {}
  PROVE  Place(setTranslationAtKey(tree, key, value), key) = Place(tree, key)
<1> DEFINE p   == Place(tree, key)
           new == Plant(Clear(tree, {p}), p, value)
<1>1. /\ key \in Seq(Segments) /\ Len(key) \in Nat \ {0}
      /\ p \in Positions /\ Len(p) \in Nat \ {0}
      /\ hasFlat(tree, key) => p = << key >>
      /\ ~hasFlat(tree, key) => Len(p) = Len(key) /\ \A n \in 1..Len(key) : p[n] = << key[n] >>
  BY PlacePoints DEF Names
<1>2. DOMAIN new = {p \o r : r \in DOMAIN value} \union {q \in DOMAIN tree : ~Comparable(p, q)}
  BY PlantedDomain
<1>3. setTranslationAtKey(tree, key, value) = new
  BY DEF setTranslationAtKey
<1>4. \A r \in DOMAIN value : Len(p \o r) > 0 /\ (p \o r)[1] = p[1]
  <2> SUFFICES ASSUME NEW r \in DOMAIN value PROVE Len(p \o r) > 0 /\ (p \o r)[1] = p[1]
    OBVIOUS
  <2>1. r \in Positions
    BY DEF WellFormed
  <2>2. /\ Len(r) \in Nat /\ Len(p \o r) = Len(p) + Len(r)
        /\ \A n \in 1..Len(p) : (p \o r)[n] = p[n]
    BY <1>1, <2>1, ConcatPoints
  <2> QED
    BY <1>1, <2>2
<1> HIDE DEF new, p
<1>5. CASE hasFlat(tree, key)
  <2>1. p[1] = key
    BY <1>1, <1>5
  <2>2. PICK r \in DOMAIN value : TRUE
    OBVIOUS
  <2>3. p \o r \in DOMAIN new /\ Len(p \o r) > 0 /\ (p \o r)[1] = key
    BY <1>2, <1>4, <2>1
  <2>4. hasFlat(new, key)
    BY <2>3 DEF hasFlat
  <2> QED
    BY <1>3, <1>5, <2>4 DEF p, Place
<1>6. CASE ~hasFlat(tree, key) /\ ~hasFlat(new, key)
  BY <1>3, <1>6 DEF p, Place
<1>7. CASE ~hasFlat(tree, key) /\ hasFlat(new, key)
  <2>1. PICK q \in DOMAIN new : Len(q) > 0 /\ q[1] = key
    BY <1>7 DEF hasFlat
  <2>2. q \notin DOMAIN tree
    BY <1>7, <2>1 DEF hasFlat
  <2>3. key = p[1] /\ p[1] = << key[1] >>
    <3>1. PICK r \in DOMAIN value : q = p \o r
      BY <1>2, <2>2
    <3> QED
      BY <1>1, <1>4, <1>7, <2>1, <3>1
  <2>4. Len(key) = 1
    BY <2>3
  <2>5. p \in Seq(Names) /\ Len(p) = 1 /\ p[1] = key
    BY <1>1, <1>7, <2>3, <2>4 DEF Positions
  <2>6. << key >> \in Seq(Names) /\ Len(<< key >>) = 1 /\ << key >>[1] = key
    BY <1>1 DEF Names
  <2>7. p = << key >>
    BY <2>5, <2>6, SeqEqual
  <2> QED
    BY <1>3, <1>7, <2>7 DEF p, Place
<1> QED
  BY <1>5, <1>6, <1>7

\* Keys beside one another have places beside one another, and the place of
\* the one stays where it is while the other is set.
LEMMA PlacesApart ==
  ASSUME NEW tree, NEW key \in Names \ {<<>>}, NEW other \in Names \ {<<>>},
         ~Comparable(key, other)
  PROVE  ~Comparable(Place(tree, key), Place(tree, other))
<1> DEFINE p == Place(tree, key)
           o == Place(tree, other)
<1>1. /\ key \in Seq(Segments) /\ Len(key) \in Nat \ {0}
      /\ p \in Seq(Names) /\ Len(p) \in Nat \ {0}
      /\ hasFlat(tree, key) => p = << key >>
      /\ ~hasFlat(tree, key) => Len(p) = Len(key) /\ \A n \in 1..Len(key) : p[n] = << key[n] >>
  BY PlacePoints DEF Names, Positions
<1>2. /\ other \in Seq(Segments) /\ Len(other) \in Nat \ {0}
      /\ o \in Seq(Names) /\ Len(o) \in Nat \ {0}
      /\ hasFlat(tree, other) => o = << other >>
      /\ ~hasFlat(tree, other) =>
           Len(o) = Len(other) /\ \A n \in 1..Len(other) : o[n] = << other[n] >>
  BY PlacePoints DEF Names, Positions
<1> HIDE DEF p, o
<1>3. PICK n \in 1..Len(key) : n <= Len(other) /\ key[n] # other[n]
  BY <1>1, <1>2, ComparablePoints
<1>4. key # other
  BY <1>3
<1> SUFFICES ASSUME Comparable(p, o) PROVE FALSE
  BY DEF p, o
<1>5. \A j \in 1..Len(p) : j <= Len(o) => p[j] = o[j]
  BY <1>1, <1>2, ComparablePoints
<1>6. p[1] = o[1]
  BY <1>1, <1>2, <1>5
<1>7. CASE hasFlat(tree, key) /\ hasFlat(tree, other)
  BY <1>1, <1>2, <1>4, <1>6, <1>7
<1>8. CASE hasFlat(tree, key) /\ ~hasFlat(tree, other)
  <2>1. key = << other[1] >>
    BY <1>1, <1>2, <1>6, <1>8
  <2>2. n = 1 /\ key[1] = other[1]
    BY <1>3, <2>1
  <2> QED
    BY <1>3, <2>2
<1>9. CASE ~hasFlat(tree, key) /\ hasFlat(tree, other)
  <2>1. other = << key[1] >>
    BY <1>1, <1>2, <1>6, <1>9
  <2>2. n = 1 /\ key[1] = other[1]
    BY <1>1, <1>3, <2>1
  <2> QED
    BY <1>3, <2>2
<1>10. CASE ~hasFlat(tree, key) /\ ~hasFlat(tree, other)
  <2>1. p[n] = << key[n] >> /\ o[n] = << other[n] >> /\ p[n] = o[n]
    BY <1>1, <1>2, <1>3, <1>5, <1>10
  <2>2. << key[n] >>[1] = << other[n] >>[1]
    BY <2>1
  <2> QED
    BY <1>3, <2>2
<1> QED
  BY <1>7, <1>8, <1>9, <1>10

\* A key beside the one that is set is kept where it was.
LEMMA SetKeepsOtherPlace ==
  ASSUME NEW tree, NEW key \in Names \ {<<>>}, NEW other \in Names \ {<<>>}, NEW value,
         IsObject(tree), WellFormed(value), ~Comparable(key, other)
  PROVE  Place(setTranslationAtKey(tree, key, value), other) = Place(tree, other)
<1> DEFINE p   == Place(tree, key)
           new == Plant(Clear(tree, {p}), p, value)
<1>1. /\ key \in Seq(Segments) /\ Len(key) \in Nat \ {0}
      /\ p \in Positions /\ Len(p) \in Nat \ {0}
      /\ hasFlat(tree, key) => p = << key >>
      /\ ~hasFlat(tree, key) => Len(p) = Len(key) /\ \A n \in 1..Len(key) : p[n] = << key[n] >>
  BY PlacePoints DEF Names
<1>2. DOMAIN new = {p \o r : r \in DOMAIN value} \union {q \in DOMAIN tree : ~Comparable(p, q)}
  BY PlantedDomain
<1>3. setTranslationAtKey(tree, key, value) = new
  BY DEF setTranslationAtKey
<1>4. other \in Seq(Segments) /\ Len(other) \in Nat \ {0} /\ key # other
      /\ ~(other = << key[1] >>)
  <2>1. other \in Seq(Segments) /\ Len(other) \in Nat \ {0}
    BY PlacePoints DEF Names
  <2>2. PICK n \in 1..Len(key) : n <= Len(other) /\ key[n] # other[n]
    BY <1>1, <2>1, ComparablePoints
  <2> QED
    BY <2>1, <2>2
<1> HIDE DEF new, p
<1>5. p[1] # other
  <2>1. CASE hasFlat(tree, key)
    BY <1>1, <1>4, <2>1
  <2>2. CASE ~hasFlat(tree, key)
    <3>1. p[1] = << key[1] >>
      BY <1>1, <2>2
    <3> QED
      BY <1>4, <3>1
  <2> QED
    BY <2>1, <2>2
<1>6. hasFlat(new, other) => hasFlat(tree, other)
  <2> SUFFICES ASSUME NEW q \in DOMAIN new, Len(q) > 0, q[1] = other
               PROVE  hasFlat(tree, other)
    BY DEF hasFlat
  <2>1. \A r \in DOMAIN value : q # p \o r
    <3> SUFFICES ASSUME NEW r \in DOMAIN value, q = p \o r PROVE FALSE
      OBVIOUS
    <3>1. r \in Positions
      BY DEF WellFormed
    <3>2. \A n \in 1..Len(p) : (p \o r)[n] = p[n]
      BY <1>1, <3>1, ConcatPoints
    <3>3. (p \o r)[1] = p[1]
      BY <1>1, <3>2
    <3> QED
      BY <1>5, <3>3
  <2>2. q \in DOMAIN tree
    BY <1>2, <2>1
  <2> QED
    BY <2>2 DEF hasFlat
<1>7. hasFlat(tree, other) => hasFlat(new, other)
  <2> SUFFICES ASSUME NEW q \in DOMAIN tree, Len(q) > 0, q[1] = other
               PROVE  hasFlat(new, other)
    BY DEF hasFlat
  <2>1. q \in Seq(Names) /\ p \in Seq(Names) /\ Len(q) \in Nat
    BY <1>1, LenProperties DEF IsObject, WellFormed, Positions
  <2>2. ~Comparable(p, q)
    <3> SUFFICES ASSUME Comparable(p, q) PROVE FALSE
      OBVIOUS
    <3>1. \A n \in 1..Len(p) : n <= Len(q) => p[n] = q[n]
      BY <2>1, ComparablePoints
    <3>2. p[1] = q[1]
      BY <1>1, <2>1, <3>1
    <3> QED
      BY <1>5, <3>2
  <2> QED
    BY <1>2, <2>2 DEF hasFlat
<1> QED
  BY <1>3, <1>6, <1>7 DEF Place

\* What a tree answers after a key is set: for the key the value, and for the
\* keys beside it what it did.
LEMMA SetAnswers ==
  ASSUME NEW tree, NEW key \in Names \ {<<>>}, NEW value, IsObject(tree), WellFormed(value),
         value # Undefined, value = [r \in DOMAIN value |-> value[r]]
  PROVE  /\ getByPath(setTranslationAtKey(tree, key, value), key) = value
         /\ \A other \in Names \ {<<>>} :
              ~Comparable(key, other) =>
                getByPath(setTranslationAtKey(tree, key, value), other) = getByPath(tree, other)
<1> DEFINE p == Place(tree, key)
<1>1. p \in Positions
  BY PlacePoints
<1>2. setTranslationAtKey(tree, key, value) = Plant(Clear(tree, {p}), p, value)
  BY DEF setTranslationAtKey
<1>3. DOMAIN value # {}
  <2> SUFFICES ASSUME DOMAIN value = {} PROVE FALSE
    OBVIOUS
  <2>1. value = [r \in {} |-> value[r]] /\ Undefined = [r \in {} |-> Nil]
    BY DEF Undefined
  <2>2. [r \in {} |-> value[r]] = [r \in {} |-> Nil]
    OBVIOUS
  <2> QED
    BY <2>1, <2>2
<1> HIDE DEF p
<1>4. getByPath(setTranslationAtKey(tree, key, value), key) = value
  BY <1>1, <1>2, <1>3, SetKeepsPlace, PlantedReadsBack DEF p, getByPath
<1>5. ASSUME NEW other \in Names \ {<<>>}, ~Comparable(key, other)
      PROVE  getByPath(setTranslationAtKey(tree, key, value), other) = getByPath(tree, other)
  <2> DEFINE o == Place(tree, other)
  <2>1. o \in Positions
    BY PlacePoints
  <2>2. ~Comparable(p, o)
    BY <1>5, PlacesApart DEF p
  <2>3. Place(setTranslationAtKey(tree, key, value), other) = o
    BY <1>5, SetKeepsOtherPlace
  <2> HIDE DEF o
  <2>4. getAt(setTranslationAtKey(tree, key, value), o) = getAt(tree, o)
    BY <1>1, <1>2, <2>1, <2>2, PlantedStaysBeside
  <2> QED
    BY <2>3, <2>4 DEF o, getByPath
<1> QED
  BY <1>4, <1>5

-----------------------------------------------------------------------------
(* Folds over a set of files *)

\* A set of numbers has a least one.
LEMMA LeastNatural ==
  ASSUME NEW T \in SUBSET Nat, T # {}
  PROVE  \E n \in T : \A m \in T : n <= m
<1>1. IsWellFoundedOn(OpToRel(<, Nat), Nat)
  BY NatLessThanWellFounded
<1> DEFINE R == {ss \in Nat \X Nat : ss[1] < ss[2]}
<1>2. OpToRel(<, Nat) = R
  BY DEF OpToRel
<1>3. IsWellFoundedOn(R, Nat)
  BY <1>1, <1>2
<1> HIDE DEF R
<1>4. PICK n \in T : \A m \in T : ~ (<<m, n>> \in R)
  BY <1>3, WFMin
<1>5. \A m \in T : ~ (m < n)
  BY <1>4 DEF R
<1> QED
  BY <1>5

\* Induction over the subsets of a finite set, for sets of sets.
LEMMA SubsetInduction ==
  ASSUME NEW S, IsFiniteSet(S), NEW T, {} \in T,
         \A s \in SUBSET S : (s # {} /\ \A x \in s : s \ {x} \in T) => s \in T
  PROVE  SUBSET S \subseteq T
<1> SUFFICES ASSUME NEW bad \in SUBSET S, bad \notin T PROVE FALSE
  OBVIOUS
<1> DEFINE Bad   == {s \in SUBSET S : s \notin T}
           Sizes == {Cardinality(s) : s \in Bad}
<1>1. \A s \in Bad : IsFiniteSet(s) /\ Cardinality(s) \in Nat
  BY FS_Subset, FS_CardinalityType
<1>2. Sizes \in SUBSET Nat /\ Sizes # {}
  BY <1>1
<1>3. PICK n \in Sizes : \A m \in Sizes : n <= m
  <2> HIDE DEF Sizes
  <2> QED
    BY <1>2, LeastNatural
<1>4. PICK s \in Bad : Cardinality(s) = n
  OBVIOUS
<1>5. s # {} /\ s \in SUBSET S /\ s \notin T
  OBVIOUS
<1>6. \A x \in s : s \ {x} \in T
  <2> SUFFICES ASSUME NEW x \in s, s \ {x} \notin T PROVE FALSE
    OBVIOUS
  <2>1. Cardinality(s \ {x}) = Cardinality(s) - 1
    BY <1>1, FS_RemoveElement
  <2>2. s \ {x} \in Bad
    BY <1>5
  <2>3. Cardinality(s \ {x}) \in Sizes
    BY <2>2
  <2>4. Cardinality(s) <= Cardinality(s \ {x})
    BY <1>3, <1>4, <2>3
  <2> QED
    BY <1>1, <2>1, <2>4
<1> QED
  BY <1>5, <1>6

\* WithFiles stores one file after another: the recursive function of the fold.
FilesStep(m, files, f) ==
  f = [s \in SUBSET files |->
         IF s = {} THEN m
         ELSE Stored(f[s \ {CHOOSE x \in s : TRUE}], CHOOSE x \in s : TRUE)]

\* There is one such function.
LEMMA FilesStepUnique ==
  ASSUME NEW m, NEW files, IsFiniteSet(files), NEW f, NEW g,
         FilesStep(m, files, f), FilesStep(m, files, g)
  PROVE  f = g
<1> DEFINE T == {s \in SUBSET files : f[s] = g[s]}
<1>1. /\ f = [s \in SUBSET files |-> f[s]] /\ g = [s \in SUBSET files |-> g[s]]
      /\ f[{}] = m /\ g[{}] = m
      /\ \A s \in SUBSET files : s # {} =>
           /\ f[s] = Stored(f[s \ {CHOOSE x \in s : TRUE}], CHOOSE x \in s : TRUE)
           /\ g[s] = Stored(g[s \ {CHOOSE x \in s : TRUE}], CHOOSE x \in s : TRUE)
  <2>1. \A h : FilesStep(m, files, h) =>
          /\ h = [s \in SUBSET files |-> h[s]] /\ h[{}] = m
          /\ \A s \in SUBSET files : s # {} =>
               h[s] = Stored(h[s \ {CHOOSE x \in s : TRUE}], CHOOSE x \in s : TRUE)
    BY DEF FilesStep
  <2> QED
    BY <2>1
<1>2. \A s \in SUBSET files : (s # {} /\ \A x \in s : s \ {x} \in T) => s \in T
  <2> SUFFICES ASSUME NEW s \in SUBSET files, s # {}, \A x \in s : s \ {x} \in T
               PROVE  s \in T
    OBVIOUS
  <2> DEFINE c == CHOOSE x \in s : TRUE
  <2>1. c \in s
    OBVIOUS
  <2> HIDE DEF c
  <2>2. f[s \ {c}] = g[s \ {c}]
    BY <2>1
  <2>3. f[s] = Stored(f[s \ {c}], c) /\ g[s] = Stored(g[s \ {c}], c)
    BY <1>1 DEF c
  <2> QED
    BY <2>2, <2>3
<1>3. {} \in T
  BY <1>1
<1> HIDE DEF T
<1>4. SUBSET files \subseteq T
  BY <1>2, <1>3, SubsetInduction
<1>5. \A s \in SUBSET files : f[s] = g[s]
  BY <1>4 DEF T
<1> QED
  BY <1>1, <1>5

\* It is that of fewer files as well.
LEMMA FilesStepRestricts ==
  ASSUME NEW m, NEW files, NEW f, FilesStep(m, files, f), NEW some \in SUBSET files
  PROVE  FilesStep(m, some, [s \in SUBSET some |-> f[s]])
<1> DEFINE g == [s \in SUBSET some |-> f[s]]
<1>1. \A s \in SUBSET some :
        f[s] = IF s = {} THEN m
               ELSE Stored(f[s \ {CHOOSE x \in s : TRUE}], CHOOSE x \in s : TRUE)
  BY DEF FilesStep
<1>2. \A s \in SUBSET some : s # {} =>
        g[s \ {CHOOSE x \in s : TRUE}] = f[s \ {CHOOSE x \in s : TRUE}]
  OBVIOUS
<1>3. \A s \in SUBSET some :
        g[s] = IF s = {} THEN m
               ELSE Stored(g[s \ {CHOOSE x \in s : TRUE}], CHOOSE x \in s : TRUE)
  BY <1>1, <1>2
<1>4. g = [s \in SUBSET some |-> g[s]]
  OBVIOUS
<1> HIDE DEF g
<1>5. FilesStep(m, some, g)
  BY <1>3, <1>4 DEF FilesStep
<1> QED
  BY <1>5 DEF g

LEMMA FilesStepAgrees ==
  ASSUME NEW m, NEW files, IsFiniteSet(files), NEW some \in SUBSET files,
         NEW f, FilesStep(m, files, f), NEW g, FilesStep(m, some, g)
  PROVE  f[some] = g[some]
<1> DEFINE r == [s \in SUBSET some |-> f[s]]
<1>1. FilesStep(m, some, r)
  BY FilesStepRestricts
<1>2. IsFiniteSet(some)
  BY FS_Subset
<1>3. r[some] = f[some]
  OBVIOUS
<1> HIDE DEF r
<1>4. r = g
  BY <1>1, <1>2, FilesStepUnique
<1> QED
  BY <1>3, <1>4

\* There is one for every finite set of files, by adding one file at a time.
LEMMA FilesStepExists ==
  ASSUME NEW m, NEW files, IsFiniteSet(files)
  PROVE  \E f : FilesStep(m, files, f)
<1> DEFINE T == {s \in SUBSET files : \E f : FilesStep(m, s, f)}
<1>1. {} \in T
  <2>1. FilesStep(m, {}, [s \in SUBSET {} |-> m])
    BY DEF FilesStep
  <2> QED
    BY <2>1
<1>2. ASSUME NEW s \in SUBSET files, s # {}, \A x \in s : s \ {x} \in T
      PROVE  s \in T
  <2> DEFINE F(t) == CHOOSE f : FilesStep(m, t, f)
             c(t) == CHOOSE x \in t : TRUE
             G == [t \in SUBSET s |-> IF t = s THEN Stored(F(s \ {c(s)})[s \ {c(s)}], c(s))
                                      ELSE F(t)[t]]
  <2>1. ASSUME NEW t \in SUBSET s, t # s
        PROVE  FilesStep(m, t, F(t)) /\ IsFiniteSet(t)
    <3>1. PICK x \in s : x \notin t
      BY <2>1
    <3>2. PICK f : FilesStep(m, s \ {x}, f)
      BY <1>2
    <3>3. FilesStep(m, t, [u \in SUBSET t |-> f[u]])
      BY <3>1, <3>2, FilesStepRestricts
    <3>4. IsFiniteSet(t)
      BY FS_Subset
    <3> QED
      BY <3>3, <3>4
  <2>2. \A t \in SUBSET s : t # {} => c(t) \in t
    OBVIOUS
  <2> HIDE DEF F, c
  <2>3. G[{}] = m
    <3>1. FilesStep(m, {}, F({}))
      BY <1>2, <2>1
    <3>2. F({})[{}] = m
      BY <3>1 DEF FilesStep
    <3> QED
      BY <1>2, <3>2
  <2>4. ASSUME NEW t \in SUBSET s, t # {}
        PROVE  G[t] = Stored(G[t \ {c(t)}], c(t))
    <3>1. c(t) \in t
      BY <2>2, <2>4
    <3>2. t \ {c(t)} \in SUBSET s /\ t \ {c(t)} # s
      BY <3>1
    <3>3. G[t \ {c(t)}] = F(t \ {c(t)})[t \ {c(t)}]
      BY <3>2
    <3>4. CASE t = s
      BY <3>3, <3>4
    <3>5. CASE t # s
      <4>1. FilesStep(m, t, F(t)) /\ IsFiniteSet(t) /\ FilesStep(m, t \ {c(t)}, F(t \ {c(t)}))
        BY <2>1, <3>2, <3>5
      <4>2. F(t)[t] = Stored(F(t)[t \ {c(t)}], c(t))
        BY <2>4, <4>1 DEF FilesStep, c
      <4>3. F(t)[t \ {c(t)}] = F(t \ {c(t)})[t \ {c(t)}]
        BY <4>1, FilesStepAgrees
      <4> QED
        BY <3>3, <3>5, <4>2, <4>3
    <3> QED
      BY <3>4, <3>5
  <2>5. G = [t \in SUBSET s |-> G[t]]
    OBVIOUS
  <2> HIDE DEF G
  <2>6. G = [t \in SUBSET s |-> IF t = {} THEN m ELSE Stored(G[t \ {c(t)}], c(t))]
    BY <2>3, <2>4, <2>5
  <2>7. FilesStep(m, s, G)
    BY <2>6 DEF FilesStep, c
  <2> QED
    BY <2>7
<1> HIDE DEF T
<1>3. SUBSET files \subseteq T
  BY <1>1, <1>2, SubsetInduction
<1> QED
  BY <1>3 DEF T

\* WithFiles is its value.
LEMMA FilesStored ==
  ASSUME NEW m, NEW files, IsFiniteSet(files)
  PROVE  \E f : FilesStep(m, files, f) /\ WithFiles(m, files) = f[files]
<1> DEFINE P(f) == f = [s \in SUBSET files |->
                          IF s = {} THEN m
                          ELSE Stored(f[s \ {CHOOSE x \in s : TRUE}], CHOOSE x \in s : TRUE)]
<1>1. WithFiles(m, files) = (CHOOSE f : P(f))[files]
  BY DEF WithFiles, FoldSet, MapThenFoldSet
<1>2. \E f : P(f)
  <2>1. PICK f : FilesStep(m, files, f)
    BY FilesStepExists
  <2>2. P(f)
    BY <2>1 DEF FilesStep
  <2> HIDE DEF P
  <2> QED
    BY <2>2
<1>3. P(CHOOSE f : P(f))
  BY <1>2
<1>4. FilesStep(m, files, CHOOSE f : P(f))
  BY <1>3 DEF FilesStep
<1> QED
  BY <1>1, <1>4

-----------------------------------------------------------------------------
(* What a component shows *)

ViewInv ==
  /\ revision \in Nat
  /\ view = [stage |-> view.stage, snap |-> view.snap, shown |-> view.shown, dirty |-> view.dirty]
  /\ view.dirty \in BOOLEAN
  /\ loading => adapter = "node"
  /\ view.stage # "none" =>
       /\ adapter = "react"
       /\ view.snap[3] \in Nat /\ view.snap[3] <= revision
       /\ view.snap = getSnapshot => view.shown = resolveLookup("app", Watched)
  /\ (view.stage = "mounted" /\ ~view.dirty) => view.snap = getSnapshot

\* A write raises the revision: what was rendered is of an earlier one, and a
\* mounted component is marked for another render.
LEMMA WriteMarks ==
  ASSUME ViewInv, notify, adapter' = adapter, loading' = loading
  PROVE  ViewInv'
<1>1. CASE adapter # "react"
  <2>1. view.stage = "none"
    BY <1>1 DEF ViewInv
  <2> QED
    BY <1>1, <2>1 DEF ViewInv, notify
<1>2. CASE adapter = "react"
  <2>1. revision \in Nat /\ revision' = revision + 1
    BY <1>2 DEF notify, ViewInv
  <2>2. getSnapshot'[3] = revision'
    BY DEF getSnapshot
  <2>3. /\ view' = [stage |-> view'.stage, snap |-> view'.snap, shown |-> view'.shown,
                    dirty |-> view'.dirty]
        /\ view'.stage = view.stage /\ view'.snap = view.snap
        /\ view'.dirty \in BOOLEAN
        /\ view.stage = "mounted" => view'.dirty = (view.dirty \/ view.snap # getSnapshot')
    <3>1. CASE view.stage # "mounted"
      BY <1>2, <3>1 DEF notify, ViewInv
    <3>2. CASE view.stage = "mounted"
      <4>1. view' = [view EXCEPT !.dirty = view.dirty \/ view.snap # getSnapshot']
        BY <1>2, <3>2 DEF notify
      <4>2. view = [stage |-> view.stage, snap |-> view.snap, shown |-> view.shown,
                    dirty |-> view.dirty]
        BY DEF ViewInv
      <4>3. view' = [stage |-> view.stage, snap |-> view.snap, shown |-> view.shown,
                     dirty |-> view.dirty \/ view.snap # getSnapshot']
        BY <4>1, <4>2
      <4> QED
        BY <4>3
    <3> QED
      BY <3>1, <3>2
  <2>4. view.stage # "none" => view.snap # getSnapshot'
    BY <2>1, <2>2 DEF ViewInv
  <2>5. view.stage # "none" => view.snap[3] \in Nat /\ view.snap[3] <= revision'
    BY <2>1 DEF ViewInv
  <2>6. (view'.stage = "mounted" /\ ~view'.dirty) => view'.snap = getSnapshot'
    BY <2>3, <2>4
  <2>7. loading' => adapter' = "node"
    BY DEF ViewInv
  <2> QED
    BY <1>2, <2>1, <2>3, <2>4, <2>5, <2>6, <2>7 DEF ViewInv
<1> QED
  BY <1>1, <1>2

\* Every call keeps the invariant of the component.
LEMMA CallKeepsView ==
  ASSUME ViewInv, Call
  PROVE  ViewInv'
<1>1. notify /\ adapter' = adapter /\ loading' = loading
  BY DEF Call, Add, addTranslations, addRouteTranslations, setTranslation, clearCache, Select
<1> QED
  BY <1>1, WriteMarks

\* The steps of the component change nothing that t() reads.
LEMMA ComponentKeepsView ==
  ASSUME ViewInv, Render \/ Subscribe \/ Rerender \/ Unmount
  PROVE  ViewInv'
<1>1. /\ UNCHANGED <<adapter, active, entry, object, revision, loading>>
      /\ adapter = "react"
  BY DEF Render, Subscribe, Rerender, Unmount, Component
<1>2. getSnapshot' = getSnapshot
  BY <1>1 DEF getSnapshot
<1>3. resolveLookup("app", Watched)' = resolveLookup("app", Watched)
  BY <1>1 DEF resolveLookup, getCache
<1>4. revision \in Nat /\ getSnapshot[3] = revision
  BY DEF ViewInv, getSnapshot
<1>5. CASE \E stage \in {"rendered", "mounted"} : view' = Rendered(stage)
  BY <1>1, <1>2, <1>3, <1>4, <1>5 DEF ViewInv, Rendered
<1>6. CASE Subscribe
  <2>1. view' = [stage |-> "mounted", snap |-> view.snap, shown |-> view.shown,
                 dirty |-> view.snap # getSnapshot]
    <3>1. view' = [view EXCEPT !.stage = "mounted", !.dirty = view.snap # getSnapshot]
      BY <1>6 DEF Subscribe, Component
    <3>2. view = [stage |-> view.stage, snap |-> view.snap, shown |-> view.shown,
                  dirty |-> view.dirty]
      BY DEF ViewInv
    <3> QED
      BY <3>1, <3>2
  <2>2. view.stage # "none"
    BY <1>6 DEF Subscribe, Component
  <2>3. (view'.stage = "mounted" /\ ~view'.dirty) => view'.snap = getSnapshot'
    BY <2>1, <1>2
  <2> QED
    BY <1>1, <1>2, <1>3, <2>1, <2>2, <2>3 DEF ViewInv
<1>7. CASE Unmount
  BY <1>1, <1>7 DEF Unmount, Component, NoView, ViewInv
<1> QED
  BY <1>5, <1>6, <1>7 DEF Render, Rerender, Component

\* Clones and loads happen where there is no component.
LEMMA OthersKeepView ==
  ASSUME ViewInv,
         \/ \E i \in Requests, l \in Locales, r \in Routes : clone(i, l, r)
         \/ \E reload \in BOOLEAN : LoadStarts(reload)
         \/ \E read \in SUBSET DOMAIN Files : LoadEnds(read)
  PROVE  ViewInv'
<1>1. /\ UNCHANGED <<adapter, revision, view>>
      /\ adapter # "react"
      /\ loading' => adapter = "node"
  <2>1. loading => adapter = "node"
    BY DEF ViewInv
  <2>2. ASSUME NEW i \in Requests, NEW l \in Locales, NEW r \in Routes, clone(i, l, r)
        PROVE  UNCHANGED <<adapter, revision, view, loading>> /\ adapter = "astro"
    BY <2>2 DEF clone
  <2>3. ASSUME NEW reload \in BOOLEAN, LoadStarts(reload)
        PROVE  UNCHANGED <<adapter, revision, view>> /\ adapter = "node"
    BY <2>3 DEF LoadStarts
  <2>4. ASSUME NEW read \in SUBSET DOMAIN Files, LoadEnds(read)
        PROVE  UNCHANGED <<adapter, revision, view>> /\ loading
    BY <2>4 DEF LoadEnds
  <2> QED
    BY <2>1, <2>2, <2>3, <2>4
<1>2. view.stage = "none"
  BY <1>1 DEF ViewInv
<1> QED
  BY <1>1, <1>2 DEF ViewInv

LEMMA ViewInvariant == Spec => []ViewInv
<1>1. Init => ViewInv
  BY DEF Init, ViewInv, NoView
<1>2. ViewInv /\ [Next]_vars => ViewInv'
  <2> SUFFICES ASSUME ViewInv, [Next]_vars
               PROVE  ViewInv'
    OBVIOUS
  <2>1. CASE Call
    BY <2>1, CallKeepsView
  <2>2. CASE Render \/ Subscribe \/ Rerender \/ Unmount
    BY <2>2, ComponentKeepsView
  <2>3. CASE \/ \E i \in Requests, l \in Locales, r \in Routes : clone(i, l, r)
             \/ \E reload \in BOOLEAN : LoadStarts(reload)
             \/ \E read \in SUBSET DOMAIN Files : LoadEnds(read)
    BY <2>3, OthersKeepView
  <2>4. CASE UNCHANGED vars
    <3>1. UNCHANGED <<adapter, active, entry, object, revision, view, loading>>
      BY <2>4 DEF vars
    <3>2. getSnapshot' = getSnapshot
      BY <3>1 DEF getSnapshot
    <3>3. resolveLookup("app", Watched)' = resolveLookup("app", Watched)
      BY <3>1 DEF resolveLookup, getCache
    <3> QED
      BY <3>1, <3>2, <3>3 DEF ViewInv
  <2> QED
    BY <2>1, <2>2, <2>3, <2>4 DEF Next
<1> QED
  BY <1>1, <1>2, PTL DEF Spec

\* A React component that is mounted and for which no render is due shows
\* what t() answers, whatever happened between its render, its subscription
\* and now (reactive-store.ts, react/src/context.tsx).
THEOREM RenderedStaysCurrent == Spec => []RenderedIsCurrent
<1>1. ViewInv => RenderedIsCurrent
  BY DEF ViewInv, RenderedIsCurrent
<1> QED
  BY <1>1, ViewInvariant, PTL

-----------------------------------------------------------------------------
(* Objects and entries: an entry holds nothing, the object made for it, or *)
(* one the application had stored, the last in entries of the route        *)
(* `index` alone; and every object is a tree.                              *)

OwnMap(map, i, h) ==
  /\ map \in [Entries -> Refs \union {None}]
  /\ \A e \in Entries : map[e] \in {None, <<i, e>>} \union (IF e = Root(e) THEN h ELSE {})

IsHeap(heap) == heap = [r \in Refs |-> heap[r]] /\ \A r \in Refs : IsObject(heap[r])

SameGiven(old, new, h) == \A o \in Given : new[o] # old[o] => o \in h

\* What a write to the storage of instance i makes of the memory m.
Kept(m, n, i, h) ==
  OwnMap(n.map, i, h) /\ IsHeap(n.object) /\ SameGiven(m.object, n.object, h)

Good(m, i, h) == OwnMap(m.map, i, h) /\ IsHeap(m.object)

LEMMA OwnRefs ==
  ASSUME NEW i \in Instances, NEW e \in Entries
  PROVE  <<i, e>> \in Refs /\ <<i, e>> \notin Given
  BY MessageStoreAssumption DEF MessageStoreAssumption, Refs

\* A tree written into an object leaves every object a tree.
LEMMA HeapWrite ==
  ASSUME NEW heap, IsHeap(heap), NEW r \in Refs, NEW value, IsObject(value),
         NEW h, r \in Given => r \in h
  PROVE  /\ IsHeap([heap EXCEPT ![r] = value])
         /\ SameGiven(heap, [heap EXCEPT ![r] = value], h)
<1>1. [heap EXCEPT ![r] = value] = [q \in Refs |-> IF q = r THEN value ELSE heap[q]]
  BY DEF IsHeap
<1>2. Given \subseteq Refs
  BY DEF Refs
<1> QED
  BY <1>1, <1>2 DEF IsHeap, SameGiven

LEMMA CopiedKept ==
  ASSUME NEW m, NEW i \in Instances, NEW e \in Entries, NEW h, NEW data, Good(m, i, h),
         IsObject(data)
  PROVE  Kept(m, Copied(m, i, e, data), i, h)
<1>1. <<i, e>> \in Refs /\ <<i, e>> \notin Given
  BY OwnRefs
<1>2. OwnMap([m.map EXCEPT ![e] = <<i, e>>], i, h)
  BY <1>1 DEF Good, OwnMap
<1>3. IsHeap(m.object)
  BY DEF Good
<1>4. /\ IsHeap([m.object EXCEPT ![<<i, e>>] = data])
      /\ SameGiven(m.object, [m.object EXCEPT ![<<i, e>>] = data], h)
  BY <1>1, <1>3, HeapWrite
<1> QED
  BY <1>2, <1>4 DEF Copied, Kept

\* Object.assign into the object that is there.
LEMMA AssignedKept ==
  ASSUME NEW m, NEW i \in Instances, NEW e \in Entries, NEW h, NEW value,
         Good(m, i, h), m.map[e] # None, m = [map |-> m.map, object |-> m.object],
         IsObject(value)
  PROVE  Kept(m, [m EXCEPT !.object[m.map[e]] = value], i, h)
<1>1. m.map[e] \in Refs /\ (m.map[e] \in Given => m.map[e] \in h)
  BY OwnRefs DEF Good, OwnMap
<1>2. IsHeap(m.object)
  BY DEF Good
<1>3. /\ IsHeap([m.object EXCEPT ![m.map[e]] = value])
      /\ SameGiven(m.object, [m.object EXCEPT ![m.map[e]] = value], h)
  BY <1>1, <1>2, HeapWrite
<1>4. [m EXCEPT !.object[m.map[e]] = value]
        = [map |-> m.map, object |-> [m.object EXCEPT ![m.map[e]] = value]]
  OBVIOUS
<1>5. OwnMap(m.map, i, h)
  BY DEF Good
<1> QED
  BY <1>3, <1>4, <1>5 DEF Kept

IsMemory(m) == m = [map |-> m.map, object |-> m.object]

\* What every write of data does: put it in a new object, or assign it to the
\* object that is there.
LEMMA WrittenKept ==
  ASSUME NEW m, NEW i \in Instances, NEW e \in Entries, NEW h, NEW data,
         Good(m, i, h), IsMemory(m), IsObject(data)
  PROVE  /\ Kept(m, Copied(m, i, e, data), i, h)
         /\ m.map[e] # None =>
              Kept(m, [m EXCEPT !.object[m.map[e]] = assign(@, data)], i, h)
<1>1. Kept(m, Copied(m, i, e, data), i, h)
  BY CopiedKept
<1>2. ASSUME m.map[e] # None
      PROVE  Kept(m, [m EXCEPT !.object[m.map[e]] = assign(@, data)], i, h)
  <2>1. [m EXCEPT !.object[m.map[e]] = assign(@, data)]
          = [m EXCEPT !.object[m.map[e]] = assign(m.object[m.map[e]], data)]
    OBVIOUS
  <2>2. m.map[e] \in Refs
    BY <1>2 DEF Good, OwnMap
  <2>3. IsObject(m.object[m.map[e]])
    BY <2>2 DEF Good, IsHeap
  <2>4. IsObject(assign(m.object[m.map[e]], data))
    BY <2>3, MergedObjects
  <2>5. Kept(m, [m EXCEPT !.object[m.map[e]] = assign(m.object[m.map[e]], data)], i, h)
    BY <1>2, <2>4, AssignedKept DEF IsMemory
  <2> QED
    BY <2>1, <2>5
<1> QED
  BY <1>1, <1>2

LEMMA MergedKept ==
  ASSUME NEW m, NEW i \in Instances, NEW e \in Entries, NEW h, NEW o \in Given,
         Good(m, i, h), IsMemory(m)
  PROVE  /\ Kept(m, mergeTranslation(m, i, e, o), i, h)
         /\ Kept(m, loadPageTranslations(m, i, e, m.object[o]), i, h)
<1>1. IsObject(m.object[o])
  BY DEF Good, IsHeap, Refs
<1>2. /\ Kept(m, Copied(m, i, e, m.object[o]), i, h)
      /\ m.map[e] # None =>
           Kept(m, [m EXCEPT !.object[m.map[e]] = assign(@, m.object[o])], i, h)
  BY <1>1, WrittenKept
<1>3. Kept(m, mergeTranslation(m, i, e, o), i, h)
  <2>1. CASE m.map[e] = None
    BY <1>2, <2>1 DEF mergeTranslation
  <2>2. CASE m.map[e] # None
    BY <1>2, <2>2 DEF mergeTranslation
  <2> QED
    BY <2>1, <2>2
<1>4. Kept(m, loadPageTranslations(m, i, e, m.object[o]), i, h)
  <2>1. CASE m.map[e] = None \/ m.object[m.map[e]] = Undefined
    BY <1>2, <2>1 DEF loadPageTranslations
  <2>2. CASE ~(m.map[e] = None \/ m.object[m.map[e]] = Undefined)
    BY <1>2, <2>2 DEF loadPageTranslations
  <2> QED
    BY <2>1, <2>2
<1> QED
  BY <1>3, <1>4

LEMMA DataKept ==
  ASSUME NEW m, NEW i \in Instances, NEW e \in Entries, NEW h, NEW data, IsObject(data),
         Good(m, i, h), IsMemory(m)
  PROVE  /\ Kept(m, mergeData(m, i, e, data), i, h)
         /\ Kept(m, loadPageTranslations(m, i, e, data), i, h)
         /\ IsMemory(mergeData(m, i, e, data)) /\ IsMemory(loadPageTranslations(m, i, e, data))
<1>1. /\ Kept(m, Copied(m, i, e, data), i, h)
      /\ m.map[e] # None =>
           Kept(m, [m EXCEPT !.object[m.map[e]] = assign(@, data)], i, h)
  BY WrittenKept
<1>2. IsMemory(Copied(m, i, e, data))
  BY DEF Copied, IsMemory
<1>3. IsMemory([m EXCEPT !.object[m.map[e]] = assign(@, data)])
  <2>1. [m EXCEPT !.object[m.map[e]] = assign(@, data)]
          = [map |-> m.map, object |-> [m.object EXCEPT ![m.map[e]] = assign(@, data)]]
    BY DEF IsMemory
  <2> QED
    BY <2>1 DEF IsMemory
<1>4. Kept(m, mergeData(m, i, e, data), i, h) /\ IsMemory(mergeData(m, i, e, data))
  <2>1. CASE m.map[e] = None
    BY <1>1, <1>2, <2>1 DEF mergeData
  <2>2. CASE m.map[e] # None
    BY <1>1, <1>3, <2>2 DEF mergeData
  <2> QED
    BY <2>1, <2>2
<1>5. /\ Kept(m, loadPageTranslations(m, i, e, data), i, h)
      /\ IsMemory(loadPageTranslations(m, i, e, data))
  <2>1. CASE m.map[e] = None \/ m.object[m.map[e]] = Undefined
    BY <1>1, <1>2, <2>1 DEF loadPageTranslations
  <2>2. CASE ~(m.map[e] = None \/ m.object[m.map[e]] = Undefined)
    BY <1>1, <1>3, <2>2 DEF loadPageTranslations
  <2> QED
    BY <2>1, <2>2
<1> QED
  BY <1>4, <1>5

LEMMA KeptOnward ==
  ASSUME NEW m, NEW n, NEW k, NEW i, NEW h, Kept(m, n, i, h), Kept(n, k, i, h)
  PROVE  Kept(m, k, i, h)
  BY DEF Kept, SameGiven

\* The one write that stores what it is given: the object joins h.
LEMMA HandedOverKept ==
  ASSUME NEW m, NEW i \in Instances, NEW e \in Entries, NEW h, NEW o \in Given,
         Good(m, i, h), e = Root(e)
  PROVE  /\ Kept(m, setTranslations(m, i, e, o), i, h \union {o})
         /\ SameGiven(m.object, setTranslations(m, i, e, o).object, h)
<1>1. <<i, e>> \in Refs /\ <<i, e>> \notin Given /\ o \in Refs
  BY OwnRefs DEF Refs
<1>2. OwnMap([m.map EXCEPT ![e] = o], i, h \union {o})
  BY <1>1 DEF Good, OwnMap
<1>3. IsHeap(m.object)
  BY DEF Good
<1>4. /\ IsHeap([m.object EXCEPT ![<<i, e>>] = Undefined])
      /\ SameGiven(m.object, [m.object EXCEPT ![<<i, e>>] = Undefined], h \union {o})
      /\ SameGiven(m.object, [m.object EXCEPT ![<<i, e>>] = Undefined], h)
  BY <1>1, <1>3, HeapWrite, EmptyIsObject
<1> QED
  BY <1>2, <1>4 DEF setTranslations, Kept

LEMMA ClearedKept ==
  ASSUME NEW m, NEW i \in Instances, NEW h, IsHeap(m.object)
  PROVE  Kept(m, Cleared(m, i), i, h)
<1>1. OwnMap([e \in Entries |-> None], i, h)
  BY DEF OwnMap
<1>2. LET new == [r \in Refs |-> IF r \in {i} \X Entries THEN Undefined ELSE m.object[r]]
      IN  IsHeap(new) /\ SameGiven(m.object, new, h)
  <2>1. \A o \in Given : o \in Refs /\ o \notin {i} \X Entries
    BY MessageStoreAssumption DEF MessageStoreAssumption, Refs
  <2> QED
    BY <2>1, EmptyIsObject DEF IsHeap, SameGiven
<1> QED
  BY <1>1, <1>2 DEF Cleared, Kept

\* The messages of the option are copied into the entries of route `index`.
LEMMA MessagesKept ==
  ASSUME NEW m, NEW i \in Instances, NEW h, NEW given, Good(m, i, h),
         DOMAIN given \subseteq Locales, \A l \in DOMAIN given : given[l] \in Given
  PROVE  Kept(m, WithMessages(m, i, given), i, h)
<1> DEFINE e(l) == <<l, "index">>
           map  == [f \in Entries |->
                      IF \E l \in DOMAIN given : f = e(l) THEN <<i, f>> ELSE m.map[f]]
           heap == [r \in Refs |-> IF \E l \in DOMAIN given : r = <<i, e(l)>>
                                   THEN m.object[given[CHOOSE l \in DOMAIN given : r = <<i, e(l)>>]]
                                   ELSE m.object[r]]
<1>1. OwnMap(map, i, h)
  <2>1. \A f \in Entries : <<i, f>> \in Refs
    BY OwnRefs
  <2> QED
    BY <2>1 DEF Good, OwnMap
<1>2. IsHeap(heap)
  <2>1. \A r \in Refs : IsObject(m.object[r])
    BY DEF Good, IsHeap
  <2>2. ASSUME NEW r \in Refs
        PROVE  IsObject(heap[r])
    <3>1. CASE \E l \in DOMAIN given : r = <<i, e(l)>>
      <4> DEFINE c == CHOOSE l \in DOMAIN given : r = <<i, e(l)>>
      <4>1. c \in DOMAIN given
        BY <3>1
      <4> HIDE DEF c
      <4>2. given[c] \in Refs
        BY <4>1 DEF Refs
      <4>3. heap[r] = m.object[given[c]]
        BY <3>1 DEF c
      <4> QED
        BY <2>1, <4>2, <4>3
    <3>2. CASE ~ \E l \in DOMAIN given : r = <<i, e(l)>>
      BY <2>1, <3>2
    <3> QED
      BY <3>1, <3>2
  <2> QED
    BY <2>2 DEF IsHeap
<1>3. SameGiven(m.object, heap, h)
  <2>1. ASSUME NEW o \in Given
        PROVE  heap[o] = m.object[o]
    <3>1. o \in Refs
      BY DEF Refs
    <3>2. \A l \in DOMAIN given : e(l) \in Entries
      BY MessageStoreAssumption DEF MessageStoreAssumption, Entries
    <3>3. \A l \in DOMAIN given : o # <<i, e(l)>>
      BY <3>2, OwnRefs
    <3> QED
      BY <3>1, <3>3
  <2> QED
    BY <2>1 DEF SameGiven
<1> QED
  BY <1>1, <1>2, <1>3 DEF WithMessages, Kept

LEMMA CloneKept ==
  ASSUME NEW m, NEW i \in Instances, NEW h, IsHeap(m.object), IsHeap(object),
         OwnMap(entry["app"], "app", h)
  PROVE  Kept(m, cloneStorage(m, i), i, h)
<1> DEFINE map  == [e \in Entries |-> IF entry["app"][e] = None THEN None ELSE <<i, e>>]
           heap == [r \in Refs |-> IF r \in {i} \X Entries THEN getCache("app", r[2])
                                   ELSE m.object[r]]
<1>1. OwnMap(map, i, h)
  <2>1. \A e \in Entries : <<i, e>> \in Refs
    BY OwnRefs
  <2> QED
    BY <2>1 DEF OwnMap
<1>2. IsHeap(heap)
  <2>1. \A e \in Entries : IsObject(getCache("app", e))
    BY EmptyIsObject DEF getCache, IsHeap, OwnMap
  <2> QED
    BY <2>1 DEF IsHeap
<1>3. SameGiven(m.object, heap, h)
  <2>1. \A o \in Given : o \in Refs /\ o \notin {i} \X Entries
    BY MessageStoreAssumption DEF MessageStoreAssumption, Refs
  <2> QED
    BY <2>1 DEF SameGiven
<1> QED
  BY <1>1, <1>2, <1>3 DEF cloneStorage, Kept

-----------------------------------------------------------------------------
OwnInv ==
  /\ adapter \in Adapters
  /\ handed \subseteq Given
  /\ \A i \in Instances :
       /\ DOMAIN messages[i] \subseteq Locales
       /\ \A l \in DOMAIN messages[i] : messages[i][l] \in Given
  /\ active \in [Instances -> [locale : Locales, fallback : Locales, route : Routes]]
  /\ entry = [i \in Instances |-> entry[i]]
  /\ IsHeap(object)
  /\ \A i \in Instances : OwnMap(entry[i], i, handed)

LEMMA MemoryGood ==
  ASSUME OwnInv, NEW i \in Instances
  PROVE  Good(Memory(i), i, handed) /\ IsMemory(Memory(i))
  BY DEF OwnInv, Good, Memory, IsMemory

\* A step that writes one storage keeps the invariant and the application's
\* objects, handed over or not.
LEMMA StoreStep ==
  ASSUME OwnInv, NEW i \in Instances, NEW m, NEW h \in SUBSET Given,
         handed \subseteq h, Kept(Memory(i), m, i, h), Store(i, m),
         UNCHANGED <<adapter, messages>>, handed' = h,
         active' \in [Instances -> [locale : Locales, fallback : Locales, route : Routes]]
  PROVE  OwnInv' /\ SameGiven(object, object', h)
<1>1. /\ OwnMap(m.map, i, h) /\ IsHeap(m.object) /\ SameGiven(object, m.object, h)
  BY DEF Kept, Memory
<1>2. entry' = [j \in Instances |-> IF j = i THEN m.map ELSE entry[j]] /\ object' = m.object
  BY DEF Store, OwnInv
<1>3. ASSUME NEW j \in Instances
      PROVE  OwnMap(entry'[j], j, h)
  <2>1. CASE j = i
    BY <1>1, <1>2, <2>1
  <2>2. CASE j # i
    BY <1>2, <2>2 DEF OwnInv, OwnMap
  <2> QED
    BY <2>1, <2>2
<1>4. entry' = [j \in Instances |-> entry'[j]]
  BY <1>2
<1> QED
  BY <1>1, <1>2, <1>3, <1>4 DEF OwnInv

\* A step that writes no storage.
LEMMA SameStep ==
  ASSUME OwnInv, UNCHANGED <<adapter, messages, handed, entry, object>>,
         active' \in [Instances -> [locale : Locales, fallback : Locales, route : Routes]]
  PROVE  OwnInv' /\ SameGiven(object, object', handed)
  BY DEF OwnInv, IsHeap, OwnMap, SameGiven

\* Each call, on an instance that exists.
LEMMA CallKeepsOwn ==
  ASSUME OwnInv, Call
  PROVE  OwnInv' /\ SameGiven(object, object', handed)
<1> PICK i \in Instances :
      \/ \E e \in Entries, o \in Given : Add(i, e, o)
      \/ \E l \in Locales, o \in Given : addTranslations(i, l, o)
      \/ \E e \in Entries, o \in Given : addRouteTranslations(i, e, o)
      \/ \E k \in Keys, v \in Values : setTranslation(i, k, v)
      \/ clearCache(i)
      \/ \E l \in Locales : Select(i, "locale", l) \/ Select(i, "fallback", l)
      \/ \E r \in Routes : Select(i, "route", r)
  BY DEF Call
<1>0. /\ Good(Memory(i), i, handed)
      /\ IsMemory(Memory(i))
      /\ handed \in SUBSET Given
      /\ active \in [Instances -> [locale : Locales, fallback : Locales, route : Routes]]
      /\ SameGiven(object, object, handed)
  BY MemoryGood DEF OwnInv, SameGiven
<1>1. ASSUME NEW m, Kept(Memory(i), m, i, handed), Store(i, m),
             UNCHANGED <<adapter, messages, handed, active>>
      PROVE  OwnInv' /\ SameGiven(object, object', handed)
  BY <1>0, <1>1, StoreStep
<1>2. ASSUME NEW e \in Entries, NEW o \in Given, Add(i, e, o)
      PROVE  OwnInv' /\ SameGiven(object, object', handed)
  <2>1. Kept(Memory(i), mergeTranslation(Memory(i), i, e, o), i, handed)
    BY <1>0, MergedKept
  <2>2. /\ Store(i, mergeTranslation(Memory(i), i, e, o))
        /\ UNCHANGED <<adapter, messages, handed, active>>
    BY <1>2 DEF Add
  <2> QED
    BY <1>1, <2>1, <2>2
<1>3. ASSUME NEW l \in Locales, NEW o \in Given, addTranslations(i, l, o)
      PROVE  OwnInv' /\ SameGiven(object, object', handed)
  <2> DEFINE e == <<l, "index">>
             m == setTranslations(Memory(i), i, e, o)
  <2>1. e \in Entries /\ e = Root(e)
    BY MessageStoreAssumption DEF MessageStoreAssumption, Entries, Root
  <2>2. Kept(Memory(i), m, i, handed \union {o}) /\ SameGiven(Memory(i).object, m.object, handed)
    BY <1>0, <2>1, HandedOverKept
  <2>3. /\ Store(i, m) /\ handed' = handed \union {o}
        /\ UNCHANGED <<adapter, messages, active>>
    BY <1>3 DEF addTranslations
  <2>4. OwnInv'
    <3> HIDE DEF m
    <3>1. handed \union {o} \in SUBSET Given /\ handed \subseteq handed \union {o}
      BY <1>0
    <3> QED
      BY <1>0, <2>2, <2>3, <3>1, StoreStep
  <2>5. SameGiven(object, object', handed)
    BY <2>2, <2>3 DEF Store, Memory
  <2> QED
    BY <2>4, <2>5
<1>4. ASSUME NEW e \in Entries, NEW o \in Given, addRouteTranslations(i, e, o)
      PROVE  OwnInv' /\ SameGiven(object, object', handed)
  <2>0. Memory(i).object = object
    BY DEF Memory
  <2>1. Kept(Memory(i), loadPageTranslations(Memory(i), i, e, object[o]), i, handed)
    BY <1>0, <2>0, MergedKept
  <2>2. /\ Store(i, loadPageTranslations(Memory(i), i, e, object[o]))
        /\ UNCHANGED <<adapter, messages, handed, active>>
    BY <1>4 DEF addRouteTranslations
  <2> QED
    BY <1>1, <2>1, <2>2
<1>5. ASSUME NEW k \in Keys, NEW v \in Values, setTranslation(i, k, v)
      PROVE  OwnInv' /\ SameGiven(object, object', handed)
  <2> DEFINE e == <<active[i].locale, active[i].route>>
             d == setTranslationAtKey(getCache(i, e), k, v)
  <2>1. e \in Entries
    BY <1>0 DEF Entries
  <2>4. IsObject(d)
    <3>1. IsObject(getCache(i, e))
      BY <2>1, EmptyIsObject DEF getCache, OwnInv, OwnMap, IsHeap
    <3>2. k \in Names \ {<<>>} /\ WellFormed(v)
      BY MessageStoreAssumption DEF MessageStoreAssumption
    <3> HIDE DEF e
    <3> QED
      BY <3>1, <3>2, SetIsObject
  <2>2. /\ Store(i, Copied(Memory(i), i, e, d))
        /\ UNCHANGED <<adapter, messages, handed, active>>
    BY <1>5 DEF setTranslation
  <2> HIDE DEF e, d
  <2>3. Kept(Memory(i), Copied(Memory(i), i, e, d), i, handed)
    BY <1>0, <2>1, <2>4, CopiedKept
  <2> QED
    BY <1>1, <2>2, <2>3
<1>6. ASSUME clearCache(i)
      PROVE  OwnInv' /\ SameGiven(object, object', handed)
  <2>1. UNCHANGED <<adapter, messages, handed, active>>
    BY <1>6 DEF clearCache
  <2>2. Kept(Memory(i), Cleared(Memory(i), i), i, handed)
    BY <1>0, ClearedKept DEF Good
  <2>3. CASE adapter # "astro"
    <3>1. Store(i, Cleared(Memory(i), i))
      BY <1>6, <2>3 DEF clearCache
    <3> QED
      BY <1>1, <2>1, <2>2, <3>1
  <2>4. CASE adapter = "astro"
    <3> DEFINE c == Cleared(Memory(i), i)
               m == WithMessages(c, i, messages[i])
    <3>1. Store(i, m)
      BY <1>6, <2>4 DEF clearCache
    <3>2. Kept(Memory(i), c, i, handed)
      BY <2>2
    <3>3. Good(c, i, handed) /\ SameGiven(Memory(i).object, c.object, handed)
      <4> HIDE DEF c
      <4> QED
        BY <3>2 DEF Kept, Good
    <3>4. /\ DOMAIN messages[i] \subseteq Locales
          /\ \A l \in DOMAIN messages[i] : messages[i][l] \in Given
      BY DEF OwnInv
    <3>5. Kept(c, m, i, handed)
      <4> HIDE DEF c
      <4> QED
        BY <3>3, <3>4, MessagesKept
    <3>6. Kept(Memory(i), m, i, handed)
      <4> HIDE DEF c, m
      <4> QED
        BY <3>3, <3>5 DEF Kept, SameGiven
    <3> HIDE DEF m
    <3> QED
      BY <1>1, <2>1, <3>1, <3>6
  <2> QED
    BY <2>3, <2>4
<1>7. ASSUME \/ \E l \in Locales : Select(i, "locale", l) \/ Select(i, "fallback", l)
             \/ \E r \in Routes : Select(i, "route", r)
      PROVE  OwnInv' /\ SameGiven(object, object', handed)
  <2>1. UNCHANGED <<adapter, messages, handed, entry, object>>
    BY <1>7 DEF Select
  <2>2. active' \in [Instances -> [locale : Locales, fallback : Locales, route : Routes]]
    BY <1>0, <1>7 DEF Select
  <2> QED
    BY <2>1, <2>2, SameStep
<1> QED
  BY <1>2, <1>3, <1>4, <1>5, <1>6, <1>7

LEMMA CloneKeepsOwn ==
  ASSUME OwnInv, NEW i \in Requests, NEW l \in Locales, NEW r \in Routes, clone(i, l, r)
  PROVE  OwnInv' /\ SameGiven(object, object', handed)
<1>1. i \in Instances /\ "app" \in Instances
  BY DEF Instances
<1>2. Kept(Memory(i), cloneStorage(Memory(i), i), i, handed)
  <2>1. Memory(i).object = object
    BY DEF Memory
  <2> QED
    BY <1>1, <2>1, CloneKept DEF OwnInv
<1>3. /\ Store(i, cloneStorage(Memory(i), i))
      /\ UNCHANGED <<adapter, messages, handed>>
      /\ active' = [active EXCEPT ![i] = [active["app"] EXCEPT !.locale = l, !.route = r]]
  BY DEF clone
<1>4. active' \in [Instances -> [locale : Locales, fallback : Locales, route : Routes]]
  <2>1. active["app"] \in [locale : Locales, fallback : Locales, route : Routes]
    BY <1>1 DEF OwnInv
  <2>2. [active["app"] EXCEPT !.locale = l, !.route = r]
          \in [locale : Locales, fallback : Locales, route : Routes]
    BY <2>1
  <2> QED
    BY <1>1, <1>3, <2>2 DEF OwnInv
<1>5. handed \in SUBSET Given
  BY DEF OwnInv
<1> QED
  BY <1>1, <1>2, <1>3, <1>4, <1>5, StoreStep

-----------------------------------------------------------------------------
(* Loading the files keeps what one file stored keeps. *)

\* A file stored into the entries of the application keeps them their own.
LEMMA OneFileKept ==
  ASSUME NEW m, NEW h, NEW e \in DOMAIN Files, Good(m, "app", h), IsMemory(m)
  PROVE  Kept(m, Stored(m, e), "app", h) /\ IsMemory(Stored(m, e))
<1>1. "app" \in Instances /\ e \in Entries /\ Root(e) \in Entries /\ IsObject(Files[e])
  BY MessageStoreAssumption DEF MessageStoreAssumption, Instances, Entries, Root
<1>2. CASE e = Root(e)
  <2>1. Stored(m, e) = mergeData(m, "app", e, Files[e])
    BY <1>2 DEF Stored
  <2> QED
    BY <1>1, <2>1, DataKept
<1>3. CASE e # Root(e)
  <2> DEFINE base == IF m.map[Root(e)] = None THEN Undefined ELSE m.object[m.map[Root(e)]]
  <2>1. IsObject(base)
    BY <1>1, EmptyIsObject DEF Good, OwnMap, IsHeap
  <2>2. Baked(m, e) = deepMergeTranslations(base, Files[e])
    BY DEF Baked
  <2> HIDE DEF base
  <2>3. IsObject(Baked(m, e))
    BY <1>1, <2>1, <2>2, MergedObjects
  <2>4. Stored(m, e) = loadPageTranslations(m, "app", e, Baked(m, e))
    BY <1>3 DEF Stored
  <2> QED
    BY <1>1, <2>3, <2>4, DataKept
<1> QED
  BY <1>2, <1>3

\* So does any set of files, whatever order they are stored in.
LEMMA FilesKept ==
  ASSUME NEW m, NEW h, NEW files \in SUBSET DOMAIN Files, Good(m, "app", h), IsMemory(m)
  PROVE  Kept(m, WithFiles(m, files), "app", h) /\ IsMemory(WithFiles(m, files))
<1>1. IsFiniteSet(files)
  BY MessageStoreAssumption, FS_Subset DEF MessageStoreAssumption
<1>2. PICK f : FilesStep(m, files, f) /\ WithFiles(m, files) = f[files]
  BY <1>1, FilesStored
<1> DEFINE T == {s \in SUBSET files : Kept(m, f[s], "app", h) /\ IsMemory(f[s])}
<1>3. /\ f[{}] = m
      /\ \A s \in SUBSET files : s # {} =>
           f[s] = Stored(f[s \ {CHOOSE x \in s : TRUE}], CHOOSE x \in s : TRUE)
  BY <1>2 DEF FilesStep
<1>4. {} \in T
  BY <1>3 DEF Kept, Good, SameGiven
<1>5. ASSUME NEW s \in SUBSET files, s # {}, \A x \in s : s \ {x} \in T
      PROVE  s \in T
  <2> DEFINE c == CHOOSE x \in s : TRUE
  <2>1. c \in s /\ c \in DOMAIN Files
    BY <1>5
  <2>2. f[s] = Stored(f[s \ {c}], c)
    BY <1>3, <1>5
  <2> HIDE DEF c
  <2>3. Kept(m, f[s \ {c}], "app", h) /\ IsMemory(f[s \ {c}])
    BY <1>5, <2>1
  <2>4. Good(f[s \ {c}], "app", h)
    BY <2>3 DEF Kept, Good
  <2>5. Kept(f[s \ {c}], f[s], "app", h) /\ IsMemory(f[s])
    BY <2>1, <2>2, <2>3, <2>4, OneFileKept
  <2> QED
    BY <2>3, <2>5, KeptOnward
<1> HIDE DEF T
<1>6. SUBSET files \subseteq T
  BY <1>1, <1>4, <1>5, SubsetInduction
<1> QED
  BY <1>2, <1>6 DEF T

\* So does a whole load: the root files, then the pages.
LEMMA LoadedKept ==
  ASSUME NEW m, NEW h, NEW read \in SUBSET DOMAIN Files, Good(m, "app", h), IsMemory(m)
  PROVE  Kept(m, Loaded(m, read), "app", h)
<1> DEFINE roots == {e \in read : e = Root(e)}
           pages == {e \in read : e # Root(e)}
           n     == WithFiles(m, roots)
<1>1. Kept(m, n, "app", h) /\ IsMemory(n)
  BY FilesKept
<1>2. Good(n, "app", h)
  <2> HIDE DEF n
  <2> QED
    BY <1>1 DEF Kept, Good
<1>3. Loaded(m, read) = WithFiles(n, pages)
  BY DEF Loaded, WithRoots, WithPages
<1> HIDE DEF n
<1>4. Kept(n, WithFiles(n, pages), "app", h)
  BY <1>1, <1>2, FilesKept
<1> QED
  BY <1>1, <1>3, <1>4, KeptOnward

LEMMA LoadKeepsOwn ==
  ASSUME OwnInv, NEW read \in SUBSET DOMAIN Files, LoadEnds(read)
  PROVE  OwnInv' /\ SameGiven(object, object', handed)
<1>1. "app" \in Instances
  BY DEF Instances
<1>2. Good(Memory("app"), "app", handed) /\ IsMemory(Memory("app"))
  BY <1>1, MemoryGood
<1> DEFINE m == Loaded(Memory("app"), read)
<1>3. Kept(Memory("app"), m, "app", handed)
  BY <1>2, LoadedKept
<1>4. Store("app", m) /\ UNCHANGED <<adapter, messages, handed, active>>
  BY DEF LoadEnds
<1> HIDE DEF m
<1> QED
  BY <1>1, <1>3, <1>4, StoreStep DEF OwnInv

LEMMA StartKeepsOwn ==
  ASSUME OwnInv, NEW reload \in BOOLEAN, LoadStarts(reload)
  PROVE  OwnInv' /\ SameGiven(object, object', handed)
<1>1. UNCHANGED <<adapter, messages, handed, active>>
  BY DEF LoadStarts
<1>2. CASE ~reload
  BY <1>1, <1>2, SameStep DEF LoadStarts, OwnInv
<1>3. CASE reload
  <2>1. "app" \in Instances
    BY DEF Instances
  <2>2. Kept(Memory("app"), Cleared(Memory("app"), "app"), "app", handed)
    BY <2>1, MemoryGood, ClearedKept DEF Good
  <2>3. Store("app", Cleared(Memory("app"), "app"))
    BY <1>3 DEF LoadStarts
  <2> QED
    BY <1>1, <2>1, <2>2, <2>3, StoreStep DEF OwnInv
<1> QED
  BY <1>2, <1>3

\* Every step keeps entries their own and objects trees.
LEMMA StepKeepsOwn ==
  ASSUME OwnInv, [Next]_vars
  PROVE  OwnInv' /\ SameGiven(object, object', handed)
<1>1. CASE Call
  BY <1>1, CallKeepsOwn
<1>2. CASE Render \/ Subscribe \/ Rerender \/ Unmount
  <2>1. UNCHANGED <<adapter, messages, handed, entry, object, active>>
    BY <1>2 DEF Render, Subscribe, Rerender, Unmount, Component
  <2> QED
    BY <2>1, SameStep DEF OwnInv
<1>3. ASSUME NEW i \in Requests, NEW l \in Locales, NEW r \in Routes, clone(i, l, r)
      PROVE  OwnInv' /\ SameGiven(object, object', handed)
  BY <1>3, CloneKeepsOwn
<1>4. CASE UNCHANGED vars
  <2>1. UNCHANGED <<adapter, messages, handed, entry, object, active>>
    BY <1>4 DEF vars
  <2> QED
    BY <2>1, SameStep DEF OwnInv
<1>5. ASSUME NEW reload \in BOOLEAN, LoadStarts(reload)
      PROVE  OwnInv' /\ SameGiven(object, object', handed)
  BY <1>5, StartKeepsOwn
<1>6. ASSUME NEW read \in SUBSET DOMAIN Files, LoadEnds(read)
      PROVE  OwnInv' /\ SameGiven(object, object', handed)
  BY <1>6, LoadKeepsOwn
<1> QED
  BY <1>1, <1>2, <1>3, <1>4, <1>5, <1>6 DEF Next

LEMMA InitOwn ==
  ASSUME Init
  PROVE  OwnInv
<1> PICK given \in MessageSets, l, f \in Locales :
      LET empty == [map    |-> [e \in Entries |-> None],
                    object |-> [r \in Refs |-> IF r \in Given THEN Content[r] ELSE Undefined]]
          start == IF adapter = "node" THEN empty ELSE WithMessages(empty, "app", given)
      IN  /\ messages = [i \in Instances |-> IF i = "app" THEN given ELSE NoMessages]
          /\ active = [i \in Instances |-> [locale |-> l, fallback |-> f, route |-> "index"]]
          /\ entry  = [i \in Instances |-> IF i = "app" THEN start.map ELSE empty.map]
          /\ object = start.object
  BY DEF Init
<1> DEFINE empty == [map    |-> [e \in Entries |-> None],
                     object |-> [r \in Refs |-> IF r \in Given THEN Content[r] ELSE Undefined]]
           filled == WithMessages(empty, "app", given)
           start  == IF adapter = "node" THEN empty ELSE filled
<1>1. adapter \in Adapters /\ handed = {}
  BY DEF Init
<1>2. /\ messages = [i \in Instances |-> IF i = "app" THEN given ELSE NoMessages]
      /\ active = [i \in Instances |-> [locale |-> l, fallback |-> f, route |-> "index"]]
      /\ entry  = [i \in Instances |-> IF i = "app" THEN start.map ELSE empty.map]
      /\ object = start.object
  OBVIOUS
<1>3. /\ "app" \in Instances /\ "index" \in Routes
      /\ DOMAIN given \subseteq Locales /\ \A j \in DOMAIN given : given[j] \in Given
  BY MessageStoreAssumption DEF MessageStoreAssumption, Instances
<1>4. DOMAIN NoMessages = {}
  BY DEF NoMessages
<1>5. \A i \in Instances : OwnMap(empty.map, i, {})
  BY DEF OwnMap
<1>6. IsHeap(empty.object)
  BY MessageStoreAssumption, EmptyIsObject DEF IsHeap, MessageStoreAssumption
<1>7. Kept(empty, filled, "app", {})
  <2>1. Good(empty, "app", {})
    BY <1>3, <1>5, <1>6 DEF Good
  <2> HIDE DEF empty
  <2> QED
    BY <1>3, <2>1, MessagesKept
<1>8. OwnMap(start.map, "app", {}) /\ IsHeap(start.object)
  <2> HIDE DEF filled, empty
  <2> QED
    BY <1>3, <1>5, <1>6, <1>7 DEF Kept
<1> HIDE DEF start, empty, filled
<1>9. \A i \in Instances : OwnMap(entry[i], i, {})
  BY <1>2, <1>5, <1>8
<1>10. entry = [i \in Instances |-> entry[i]]
  BY <1>2
<1>11. IsHeap(object)
  BY <1>2, <1>8
<1>12. \A i \in Instances :
         /\ DOMAIN messages[i] \subseteq Locales
         /\ \A j \in DOMAIN messages[i] : messages[i][j] \in Given
  BY <1>2, <1>3, <1>4
<1>13. active \in [Instances -> [locale : Locales, fallback : Locales, route : Routes]]
  BY <1>2, <1>3
<1> QED
  BY <1>1, <1>9, <1>10, <1>11, <1>12, <1>13 DEF OwnInv

LEMMA OwnInvariant == Spec => []OwnInv
<1>1. Init => OwnInv
  BY InitOwn
<1>2. OwnInv /\ [Next]_vars => OwnInv'
  BY StepKeepsOwn
<1> QED
  BY <1>1, <1>2, PTL DEF Spec

LEMMA AliveInvariant == Spec => [](alive \subseteq Instances)
<1>1. Init => alive \subseteq Instances
  BY DEF Init, Instances
<1>2. alive \subseteq Instances /\ [Next]_vars => (alive \subseteq Instances)'
  <2> SUFFICES ASSUME alive \subseteq Instances, [Next]_vars
               PROVE  alive' \subseteq Instances
    OBVIOUS
  <2>1. CASE Call
    BY <2>1 DEF Call, Add, addTranslations, addRouteTranslations, setTranslation, clearCache, Select
  <2>2. CASE Render \/ Subscribe \/ Rerender \/ Unmount
    BY <2>2 DEF Render, Subscribe, Rerender, Unmount, Component
  <2>3. ASSUME NEW i \in Requests, NEW l \in Locales, NEW r \in Routes, clone(i, l, r)
        PROVE  alive' \subseteq Instances
    BY <2>3 DEF clone, Instances
  <2>4. ASSUME NEW reload \in BOOLEAN, LoadStarts(reload)
        PROVE  alive' \subseteq Instances
    BY <2>4 DEF LoadStarts
  <2>5. ASSUME NEW read \in SUBSET DOMAIN Files, LoadEnds(read)
        PROVE  alive' \subseteq Instances
    BY <2>5 DEF LoadEnds
  <2>6. CASE UNCHANGED vars
    BY <2>6 DEF vars
  <2> QED
    BY <2>1, <2>2, <2>3, <2>4, <2>5, <2>6 DEF Next
<1> QED
  BY <1>1, <1>2, PTL DEF Spec

\* What a request of the astro adapter writes is in no object that another
\* request or the application's instance reads, and no two entries share one
\* under react and node, unless the application had one object stored twice
\* (astro/src/composer.ts:52-73, translation.ts).
THEOREM RequestsKeepTheirOwn == Spec => []EntriesAreOwn
<1>1. OwnInv /\ alive \subseteq Instances => EntriesAreOwn
  <2> SUFFICES ASSUME OwnInv, alive \subseteq Instances,
                      NEW x \in alive \X Entries, NEW y \in alive \X Entries,
                      x # y, entry[x[1]][x[2]] # None,
                      entry[x[1]][x[2]] = entry[y[1]][y[2]]
               PROVE  entry[x[1]][x[2]] \in handed
    BY DEF EntriesAreOwn
  <2>1. /\ entry[x[1]][x[2]] \in {None, <<x[1], x[2]>>} \union handed
        /\ entry[y[1]][y[2]] \in {None, <<y[1], y[2]>>} \union handed
    BY DEF OwnInv, OwnMap
  <2>2. <<x[1], x[2]>> # <<y[1], y[2]>>
    OBVIOUS
  <2> QED
    BY <2>1, <2>2
<1> QED
  BY <1>1, OwnInvariant, AliveInvariant, PTL

\* No call and no load of files writes into an object the application passed
\* in, unless it was passed to be stored itself (translation.ts:41-70).
THEOREM CallersKeepTheirObjects == Spec => CallerObjectsStay
<1>1. OwnInv /\ [Next]_vars => [\A o \in Given : object'[o] # object[o] => o \in handed]_vars
  <2> SUFFICES ASSUME OwnInv, [Next]_vars
               PROVE  \A o \in Given : object'[o] # object[o] => o \in handed
    OBVIOUS
  <2>1. SameGiven(object, object', handed)
    BY StepKeepsOwn
  <2> QED
    BY <2>1 DEF SameGiven
<1> QED
  BY <1>1, OwnInvariant, PTL DEF Spec, CallerObjectsStay

-----------------------------------------------------------------------------
(* Counts, and the type invariant. *)

CountInv ==
  /\ revision \in Nat /\ writes \in Nat /\ revision <= writes /\ writes <= MaxWrites
  /\ view.stage \in {"none", "rendered", "mounted"}

\* Calls are counted one by one, and a notification is part of a call.
LEMMA StepKeepsCounts ==
  ASSUME ViewInv, CountInv, [Next]_vars
  PROVE  CountInv'
<1>0. MaxWrites \in Nat
  BY MessageStoreAssumption DEF MessageStoreAssumption
<1>1. CASE Call
  <2>1. notify /\ Counted
    BY <1>1 DEF Call, Add, addTranslations, addRouteTranslations, setTranslation, clearCache, Select
  <2>2. writes' = writes + 1 /\ writes' <= MaxWrites
    BY <1>0, <2>1 DEF Counted, CountInv
  <2>3. revision' \in {revision, revision + 1}
    BY <2>1 DEF notify
  <2>4. view'.stage = view.stage
    <3>1. CASE adapter # "react" \/ view.stage # "mounted"
      BY <2>1, <3>1 DEF notify
    <3>2. CASE adapter = "react" /\ view.stage = "mounted"
      <4>1. view' = [view EXCEPT !.dirty = view.dirty \/ view.snap # getSnapshot']
        BY <2>1, <3>2 DEF notify
      <4>2. view = [stage |-> view.stage, snap |-> view.snap, shown |-> view.shown,
                    dirty |-> view.dirty]
        BY DEF ViewInv
      <4>3. view' = [stage |-> view.stage, snap |-> view.snap, shown |-> view.shown,
                     dirty |-> view.dirty \/ view.snap # getSnapshot']
        BY <4>1, <4>2
      <4> QED
        BY <4>3
    <3> QED
      BY <3>1, <3>2
  <2> QED
    BY <1>0, <2>2, <2>3, <2>4 DEF CountInv
<1>2. CASE Render \/ Subscribe \/ Rerender \/ Unmount
  <2>1. UNCHANGED <<revision, writes>>
    BY <1>2 DEF Render, Subscribe, Rerender, Unmount, Component
  <2>2. view'.stage \in {"none", "rendered", "mounted"}
    <3>1. CASE Render \/ Rerender
      BY <3>1 DEF Render, Rerender, Component, Rendered
    <3>2. CASE Subscribe
      <4>1. view' = [view EXCEPT !.stage = "mounted", !.dirty = view.snap # getSnapshot]
        BY <3>2 DEF Subscribe, Component
      <4>2. view = [stage |-> view.stage, snap |-> view.snap, shown |-> view.shown,
                    dirty |-> view.dirty]
        BY DEF ViewInv
      <4>3. view' = [stage |-> "mounted", snap |-> view.snap, shown |-> view.shown,
                     dirty |-> view.snap # getSnapshot]
        BY <4>1, <4>2
      <4> QED
        BY <4>3
    <3>3. CASE Unmount
      BY <3>3 DEF Unmount, Component, NoView
    <3> QED
      BY <1>2, <3>1, <3>2, <3>3
  <2> QED
    BY <2>1, <2>2 DEF CountInv
<1>3. ASSUME NEW i \in Requests, NEW l \in Locales, NEW r \in Routes, clone(i, l, r)
      PROVE  CountInv'
  BY <1>3 DEF clone, CountInv
<1>4. ASSUME NEW reload \in BOOLEAN, LoadStarts(reload)
      PROVE  CountInv'
  BY <1>0, <1>4 DEF LoadStarts, Counted, CountInv
<1>5. ASSUME NEW read \in SUBSET DOMAIN Files, LoadEnds(read)
      PROVE  CountInv'
  BY <1>5 DEF LoadEnds, CountInv
<1>6. CASE UNCHANGED vars
  BY <1>6 DEF vars, CountInv
<1> QED
  BY <1>1, <1>2, <1>3, <1>4, <1>5, <1>6 DEF Next

LEMMA CountInvariant == Spec => []CountInv
<1>1. Init => CountInv
  BY MessageStoreAssumption DEF MessageStoreAssumption, Init, CountInv, NoView
<1>2. ViewInv /\ CountInv /\ [Next]_vars => CountInv'
  BY StepKeepsCounts
<1> QED
  BY <1>1, <1>2, ViewInvariant, PTL DEF Spec

\* Objects stay trees and entries hold objects, through every write, clone
\* and load of every adapter (core/src/translation.ts, core/src/helpers.ts).
THEOREM StoreTypeOK == Spec => []TypeOK
<1>1. OwnInv /\ ViewInv /\ CountInv => TypeOK
  <2> SUFFICES ASSUME OwnInv, ViewInv, CountInv
               PROVE  TypeOK
    OBVIOUS
  <2>1. \A i \in Instances : entry[i] \in [Entries -> Refs \union {None}]
    BY DEF OwnInv, OwnMap
  <2>2. entry \in [Instances -> [Entries -> Refs \union {None}]]
    BY <2>1 DEF OwnInv
  <2>3. DOMAIN object = Refs /\ \A r \in Refs : IsObject(object[r])
    BY DEF OwnInv, IsHeap
  <2>4. revision \in 0..MaxWrites /\ writes \in 0..MaxWrites
    BY MessageStoreAssumption DEF MessageStoreAssumption, CountInv
  <2> QED
    BY <2>2, <2>3, <2>4 DEF TypeOK, OwnInv, ViewInv, CountInv
<1> QED
  BY <1>1, OwnInvariant, ViewInvariant, CountInvariant, PTL

-----------------------------------------------------------------------------
(* What is set is what t() answers. *)

\* What setTranslation does to what every entry of the instance answers.
LEMMA SetStep ==
  ASSUME OwnInv, NEW i \in Instances, NEW k \in Keys, NEW v \in Values, setTranslation(i, k, v)
  PROVE  LET e == <<active[i].locale, active[i].route>>
         IN  /\ e \in Entries
             /\ getCache(i, e)' = setTranslationAtKey(getCache(i, e), k, v)
             /\ \A f \in Entries \ {e} : getCache(i, f)' = getCache(i, f)
<1> DEFINE e   == <<active[i].locale, active[i].route>>
           new == setTranslationAtKey(getCache(i, e), k, v)
<1>1. e \in Entries
  BY DEF OwnInv, Entries
<1>2. Store(i, Copied(Memory(i), i, e, new))
  BY DEF setTranslation
<1> HIDE DEF e, new
<1>3. entry' = [entry EXCEPT ![i] = [entry[i] EXCEPT ![e] = <<i, e>>]]
  BY <1>2 DEF Store, Copied, Memory
<1>4. object' = [object EXCEPT ![<<i, e>>] = new]
  BY <1>2 DEF Store, Copied, Memory
<1>5. /\ <<i, e>> \in Refs /\ <<i, e>> \notin Given /\ <<i, e>> # None
      /\ entry[i] \in [Entries -> Refs \union {None}] /\ i \in DOMAIN entry
      /\ object = [r \in Refs |-> object[r]]
      /\ handed \subseteq Given
  BY <1>1, OwnRefs, MessageStoreAssumption DEF MessageStoreAssumption, OwnInv, OwnMap, IsHeap
<1>6. entry'[i][e] = <<i, e>> /\ object'[<<i, e>>] = new
  BY <1>1, <1>3, <1>4, <1>5
<1>7. getCache(i, e)' = new
  <2>1. e' = e
    BY DEF e, setTranslation
  <2> QED
    BY <1>5, <1>6, <2>1 DEF getCache
<1>8. ASSUME NEW f \in Entries \ {e}
      PROVE  getCache(i, f)' = getCache(i, f)
  <2>1. entry'[i][f] = entry[i][f]
    BY <1>3, <1>5
  <2>2. entry[i][f] \in {None, <<i, f>>} \union handed
    BY DEF OwnInv, OwnMap
  <2>3. entry[i][f] # None => entry[i][f] \in Refs /\ entry[i][f] # <<i, e>>
    BY <1>5, <2>2
  <2>4. entry[i][f] # None => object'[entry[i][f]] = object[entry[i][f]]
    BY <1>4, <1>5, <2>3
  <2> QED
    BY <2>1, <2>4 DEF getCache
<1> QED
  BY <1>1, <1>7, <1>8 DEF e, new

\* t() answers a key with the value it was just set to, and every key beside
\* it as before: over dictionaries written flat, nested or both, and through
\* the fallback locale (core/src/base.ts:312, core/src/helpers.ts).
THEOREM SetsReadBack == Spec => SetReadsBack
<1>1. ASSUME OwnInv, NEW i \in Instances, NEW k \in Keys, NEW v \in Values,
             setTranslation(i, k, v)
      PROVE  /\ v # Leaf(Nil) => resolveLookup(i, k)' = v
             /\ \A other \in Keys :
                  ~Comparable(k, other) => resolveLookup(i, other)' = resolveLookup(i, other)
  <2> DEFINE e == <<active[i].locale, active[i].route>>
             f == <<active[i].fallback, active[i].route>>
             t == getCache(i, e)
             u == setTranslationAtKey(t, k, v)
  <2>1. e \in Entries /\ f \in Entries /\ active' = active
    BY <1>1 DEF OwnInv, Entries, setTranslation
  <2>2. /\ getCache(i, e)' = u
        /\ \A g \in Entries \ {e} : getCache(i, g)' = getCache(i, g)
    BY <1>1, SetStep
  <2>3. /\ k \in Names \ {<<>>} /\ WellFormed(v) /\ v # Undefined
        /\ v = [p \in DOMAIN v |-> v[p]]
        /\ Keys \subseteq Names \ {<<>>}
    BY <1>1, MessageStoreAssumption DEF MessageStoreAssumption
  <2>4. IsObject(t)
    BY <1>1, <2>1, EmptyIsObject DEF getCache, OwnInv, OwnMap, IsHeap
  <2>5. /\ getByPath(u, k) = v
        /\ \A other \in Names \ {<<>>} :
             ~Comparable(k, other) => getByPath(u, other) = getByPath(t, other)
    <3> HIDE DEF t
    <3> QED
      BY <2>3, <2>4, SetAnswers
  <2> HIDE DEF t, u
  <2>6. \A key : resolveLookup(i, key) =
          IF resolveTranslation(t, key) # Undefined THEN resolveTranslation(t, key)
          ELSE resolveTranslation(getCache(i, f), key)
    BY DEF resolveLookup, t
  <2>7. ASSUME NEW key \in Keys
        PROVE  resolveLookup(i, key)' =
                 IF resolveTranslation(u, key) # Undefined THEN resolveTranslation(u, key)
                 ELSE resolveTranslation(getCache(i, f)', key)
    BY <2>1, <2>2 DEF resolveLookup
  <2>8. v # Leaf(Nil) => resolveLookup(i, k)' = v
    BY <2>3, <2>5, <2>7 DEF resolveTranslation
  <2>9. ASSUME NEW other \in Keys, ~Comparable(k, other)
        PROVE  resolveLookup(i, other)' = resolveLookup(i, other)
    <3>1. resolveTranslation(u, other) = resolveTranslation(t, other)
      BY <2>3, <2>5, <2>9 DEF resolveTranslation
    <3>2. resolveTranslation(getCache(i, f)', other) = resolveTranslation(getCache(i, f), other)
      <4>1. CASE f = e
        <5>1. getCache(i, f)' = getCache(i, e)'
          BY <2>1, <4>1 DEF getCache
        <5> QED
          BY <2>2, <3>1, <4>1, <5>1 DEF t
      <4>2. CASE f # e
        BY <2>1, <2>2, <4>2
      <4> QED
        BY <4>1, <4>2
    <3> QED
      BY <2>6, <2>7, <3>1, <3>2
  <2> QED
    BY <2>8, <2>9
<1>2. OwnInv => [\A i \in Instances, k \in Keys, v \in Values :
        setTranslation(i, k, v) =>
          /\ v # Leaf(Nil) => resolveLookup(i, k)' = v
          /\ \A other \in Keys :
               ~Comparable(k, other) => resolveLookup(i, other)' = resolveLookup(i, other)]_vars
  BY <1>1
<1> QED
  BY <1>2, OwnInvariant, PTL DEF SetReadsBack

-----------------------------------------------------------------------------
(* What a load leaves in a page. *)

Has(tree, part) == \A q \in DOMAIN part : q \in DOMAIN tree /\ tree[q] = part[q]

\* The leaves of `root` in whose section `file` has nothing.
HasBeside(tree, root, file) ==
  \A q \in DOMAIN root :
    (\A p \in DOMAIN file : ~Comparable(Cut(p, 2), Cut(q, 2))) =>
      q \in DOMAIN tree /\ tree[q] = root[q]

\* A merge has what is merged in.
LEMMA AssignHas ==
  ASSUME NEW tree, NEW data
  PROVE  Has(assign(tree, data), data)
  BY DEF Has, assign, Merge, Over

\* A merge of pages keeps the sections the page leaves alone.
LEMMA DeepMergeHas ==
  ASSUME NEW base, NEW file, IsObject(base), IsObject(file)
  PROVE  /\ Has(deepMergeTranslations(base, file), file)
         /\ HasBeside(deepMergeTranslations(base, file), base, file)
<1> DEFINE kept == {q \in DOMAIN base :
                      \A p \in DOMAIN file : ~Comparable(Cut(p, 2), Cut(q, 2))}
           new == deepMergeTranslations(base, file)
<1>1. /\ DOMAIN new = DOMAIN file \union kept
      /\ \A q \in DOMAIN file : new[q] = file[q]
      /\ \A q \in kept \ DOMAIN file : new[q] = base[q]
  BY DEF deepMergeTranslations, Merge, Over
<1>2. \A q \in kept : q \notin DOMAIN file
  <2>1. \A x : Comparable(x, x) \/ ~(Len(x) <= Len(x))
    BY DEF Comparable, IsPrefix
  <2>2. \A q \in kept : Len(Cut(q, 2)) \in Nat
    <3>1. \A q \in kept : q \in Seq(Names)
      BY DEF IsObject, WellFormed, Positions
    <3>2. \A q \in kept : Cut(q, 2) \in Seq(Names)
      BY <3>1, CutPoints
    <3> QED
      BY <3>2, LenProperties
  <2> QED
    BY <2>1, <2>2
<1> HIDE DEF new
<1>3. Has(new, file)
  BY <1>1 DEF Has
<1>4. HasBeside(new, base, file)
  BY <1>1, <1>2 DEF HasBeside
<1> QED
  BY <1>3, <1>4 DEF new

\* A file that is stored goes into the object of its entry, and nowhere else.
LEMMA StoredEffect ==
  ASSUME NEW m, NEW h, NEW c \in DOMAIN Files, Good(m, "app", h), IsMemory(m)
  PROVE  LET k == Stored(m, c)
         IN  /\ \A e \in Entries \ {c} : k.map[e] = m.map[e]
             /\ k.map[c] \in {m.map[c], <<"app", c>>} /\ k.map[c] # None
             /\ \A x \in Refs : x # k.map[c] => k.object[x] = m.object[x]
             /\ Has(k.object[k.map[c]], IF c = Root(c) THEN Files[c] ELSE Baked(m, c))
<1> DEFINE k == Stored(m, c)
           data == IF c = Root(c) THEN Files[c] ELSE Baked(m, c)
<1>1. /\ "app" \in Instances /\ c \in Entries /\ None \notin Refs
      /\ <<"app", c>> \in Refs /\ <<"app", c>> # None
  BY MessageStoreAssumption, OwnRefs DEF MessageStoreAssumption, Instances, Entries
<1>2. /\ DOMAIN m.map = Entries /\ m.map[c] \in Refs \union {None}
      /\ m.object = [r \in Refs |-> m.object[r]]
      /\ m = [map |-> m.map, object |-> m.object]
  BY <1>1 DEF Good, OwnMap, IsHeap, IsMemory
<1>3. \/ k = Copied(m, "app", c, data)
      \/ m.map[c] # None /\ k = [m EXCEPT !.object[m.map[c]] = assign(@, data)]
  BY DEF Stored, mergeData, loadPageTranslations
<1> HIDE DEF k, data
<1>4. CASE k = Copied(m, "app", c, data)
  <2>1. /\ k.map = [m.map EXCEPT ![c] = <<"app", c>>]
        /\ k.object = [m.object EXCEPT ![<<"app", c>>] = data]
    BY <1>4 DEF Copied
  <2>2. k.map[c] = <<"app", c>> /\ k.object[<<"app", c>>] = data
    BY <1>1, <1>2, <2>1
  <2>3. Has(data, data)
    BY DEF Has
  <2>4. \A x \in Refs : x # <<"app", c>> => k.object[x] = m.object[x]
    BY <1>2, <2>1
  <2>5. \A e \in Entries \ {c} : k.map[e] = m.map[e]
    BY <1>2, <2>1
  <2> QED
    BY <1>1, <2>2, <2>3, <2>4, <2>5 DEF k, data
<1>5. CASE m.map[c] # None /\ k = [m EXCEPT !.object[m.map[c]] = assign(@, data)]
  <2> DEFINE x == m.map[c]
             y == assign(m.object[x], data)
  <2>1. x \in Refs
    BY <1>2, <1>5
  <2>2. k = [m EXCEPT !.object[x] = y]
    BY <1>5
  <2>3. Has(y, data)
    BY AssignHas
  <2> HIDE DEF y
  <2>4. k.map = m.map /\ k.object = [m.object EXCEPT ![x] = y]
    BY <1>2, <2>2
  <2>5. k.object[x] = y /\ \A z \in Refs : z # x => k.object[z] = m.object[z]
    BY <1>2, <2>1, <2>4
  <2> QED
    BY <1>5, <2>3, <2>4, <2>5 DEF k, data
<1> QED
  BY <1>3, <1>4, <1>5

\* The entry r takes its own root file, and no other entry shares its object.
Alone(m, r, read) == \A f \in read \ {r} : m.map[f] # m.map[r] \/ m.map[f] = None

RootRead(m, r, h, read, s) ==
  /\ Good(m, "app", h) /\ IsMemory(m) /\ Alone(m, r, read)
  /\ r \in s => m.map[r] # None /\ Has(m.object[m.map[r]], Files[r])

\* A root file stored: what other root files left stays in other objects.
LEMMA OneRootRead ==
  ASSUME NEW m, NEW h \in SUBSET Given, NEW read \in SUBSET DOMAIN Files, NEW r \in Entries,
         NEW s, NEW c \in read, c = Root(c), RootRead(m, r, h, read, s \ {c})
  PROVE  RootRead(Stored(m, c), r, h, read, s)
<1> DEFINE k == Stored(m, c)
<1>1. /\ c \in DOMAIN Files /\ c \in Entries /\ "app" \in Instances /\ None \notin Refs
      /\ \A e \in Entries : <<"app", e>> \in Refs /\ <<"app", e>> \notin Given
      /\ read \subseteq Entries
  BY MessageStoreAssumption, OwnRefs DEF MessageStoreAssumption, Instances, Entries
<1>2. Good(m, "app", h) /\ IsMemory(m) /\ Alone(m, r, read)
  BY DEF RootRead
<1>3. /\ \A e \in Entries \ {c} : k.map[e] = m.map[e]
      /\ k.map[c] \in {m.map[c], <<"app", c>>} /\ k.map[c] # None
      /\ \A x \in Refs : x # k.map[c] => k.object[x] = m.object[x]
      /\ Has(k.object[k.map[c]], Files[c])
  BY <1>1, <1>2, StoredEffect
<1>4. Good(k, "app", h) /\ IsMemory(k)
  BY <1>1, <1>2, OneFileKept DEF Kept, Good
<1> HIDE DEF k
<1>5. \A e \in Entries : /\ m.map[e] \in {None, <<"app", e>>} \union h
                         /\ m.map[e] \in Refs \union {None}
  BY <1>2 DEF Good, OwnMap
<1>6. \A e, f \in Entries : e # f => <<"app", e>> # <<"app", f>> /\ m.map[f] # <<"app", e>>
  <2> SUFFICES ASSUME NEW e \in Entries, NEW f \in Entries, e # f
               PROVE  <<"app", e>> # <<"app", f>> /\ m.map[f] # <<"app", e>>
    OBVIOUS
  <2>1. <<"app", e>> # <<"app", f>>
    OBVIOUS
  <2>2. <<"app", e>> # None /\ <<"app", e>> \notin h
    BY <1>1
  <2> QED
    BY <1>5, <2>1, <2>2
<1>7. CASE c = r
  <2>1. Alone(k, r, read)
    BY <1>1, <1>2, <1>3, <1>6, <1>7 DEF Alone
  <2> QED
    BY <1>3, <1>4, <1>7, <2>1 DEF RootRead, k
<1>8. CASE c # r
  <2>1. k.map[r] = m.map[r]
    BY <1>3, <1>8
  <2>2. k.map[c] # m.map[r]
    <3>1. CASE k.map[c] = m.map[c]
      BY <1>2, <1>3, <1>8, <3>1 DEF Alone
    <3>2. CASE k.map[c] = <<"app", c>>
      BY <1>1, <1>6, <1>8, <3>2
    <3> QED
      BY <1>3, <3>1, <3>2
  <2>3. Alone(k, r, read)
    BY <1>1, <1>2, <1>3, <2>1, <2>2 DEF Alone
  <2>4. ASSUME r \in s
        PROVE  k.map[r] # None /\ Has(k.object[k.map[r]], Files[r])
    <3>1. m.map[r] # None /\ Has(m.object[m.map[r]], Files[r])
      BY <1>8, <2>4 DEF RootRead
    <3>2. m.map[r] \in Refs
      BY <1>5, <3>1
    <3>3. k.object[m.map[r]] = m.object[m.map[r]]
      BY <1>3, <2>2, <3>2
    <3> QED
      BY <2>1, <3>1, <3>3
  <2> QED
    BY <1>4, <2>3, <2>4 DEF RootRead, k
<1> QED
  BY <1>7, <1>8

\* After the root files, an entry that shares its object with no other has its file.
LEMMA RootsRead ==
  ASSUME NEW m, NEW h \in SUBSET Given, NEW read \in SUBSET DOMAIN Files, NEW r \in Entries,
         RootRead(m, r, h, read, {})
  PROVE  RootRead(WithRoots(m, read), r, h, read, {e \in read : e = Root(e)})
<1> DEFINE files == {e \in read : e = Root(e)}
<1>1. IsFiniteSet(files)
  BY MessageStoreAssumption, FS_Subset DEF MessageStoreAssumption
<1>2. PICK f : FilesStep(m, files, f) /\ WithFiles(m, files) = f[files]
  BY <1>1, FilesStored
<1> DEFINE T == {s \in SUBSET files : RootRead(f[s], r, h, read, s)}
<1>3. /\ f[{}] = m
      /\ \A s \in SUBSET files : s # {} =>
           f[s] = Stored(f[s \ {CHOOSE x \in s : TRUE}], CHOOSE x \in s : TRUE)
  BY <1>2 DEF FilesStep
<1>4. {} \in T
  BY <1>3
<1>5. ASSUME NEW s \in SUBSET files, s # {}, \A x \in s : s \ {x} \in T
      PROVE  s \in T
  <2> DEFINE c == CHOOSE x \in s : TRUE
  <2>1. c \in s /\ c \in read /\ c = Root(c)
    BY <1>5
  <2>2. f[s] = Stored(f[s \ {c}], c)
    BY <1>3, <1>5
  <2> HIDE DEF c
  <2>3. RootRead(f[s \ {c}], r, h, read, s \ {c})
    BY <1>5, <2>1
  <2>4. RootRead(f[s], r, h, read, s)
    BY <2>1, <2>2, <2>3, OneRootRead
  <2> QED
    BY <2>4
<1> HIDE DEF T, files
<1>6. SUBSET files \subseteq T
  BY <1>1, <1>4, <1>5, SubsetInduction
<1>7. RootRead(f[files], r, h, read, files)
  BY <1>6 DEF T
<1> QED
  BY <1>2, <1>7 DEF WithRoots, files

\* Page e after the files s: n is the memory once the root files are stored.
PageRead(m, n, e, h, s) ==
  /\ Good(m, "app", h) /\ IsMemory(m)
  /\ m.map[Root(e)] = n.map[Root(e)]
  /\ m.map[Root(e)] # None => m.object[m.map[Root(e)]] = n.object[n.map[Root(e)]]
  /\ e \in s =>
       /\ m.map[e] = <<"app", e>>
       /\ Has(m.object[m.map[e]], Files[e])
       /\ n.map[Root(e)] # None =>
            HasBeside(m.object[m.map[e]], n.object[n.map[Root(e)]], Files[e])

\* What is stored for a page: its file, and what it leaves of the root.
LEMMA BakedHas ==
  ASSUME NEW m, NEW e \in DOMAIN Files, NEW h, Good(m, "app", h), NEW tree,
         Has(tree, Baked(m, e))
  PROVE  /\ Has(tree, Files[e])
         /\ m.map[Root(e)] # None => HasBeside(tree, m.object[m.map[Root(e)]], Files[e])
<1> DEFINE base == IF m.map[Root(e)] = None THEN Undefined ELSE m.object[m.map[Root(e)]]
<1>1. Root(e) \in Entries /\ IsObject(Files[e])
  BY MessageStoreAssumption DEF MessageStoreAssumption, Entries, Root
<1>2. IsObject(base)
  BY <1>1, EmptyIsObject DEF Good, OwnMap, IsHeap
<1>3. Baked(m, e) = deepMergeTranslations(base, Files[e])
  BY DEF Baked
<1> HIDE DEF base
<1>4. Has(Baked(m, e), Files[e]) /\ HasBeside(Baked(m, e), base, Files[e])
  BY <1>1, <1>2, <1>3, DeepMergeHas
<1>5. Has(tree, Files[e])
  BY <1>4 DEF Has
<1>6. HasBeside(tree, base, Files[e])
  BY <1>4 DEF Has, HasBeside
<1> QED
  BY <1>5, <1>6 DEF base

\* A page stored leaves what other pages and the root files have.
LEMMA OnePageRead ==
  ASSUME NEW m, NEW n, NEW h \in SUBSET Given, NEW e \in DOMAIN Files, e # Root(e),
         NEW s, NEW c \in DOMAIN Files, c # Root(c), PageRead(m, n, e, h, s \ {c})
  PROVE  PageRead(Stored(m, c), n, e, h, s)
<1> DEFINE k == Stored(m, c)
           r == Root(e)
<1>1. /\ c \in Entries /\ e \in Entries /\ r \in Entries /\ "app" \in Instances
      /\ r = Root(r) /\ c # r
      /\ \A f \in Entries : <<"app", f>> \in Refs /\ <<"app", f>> \notin Given
  BY MessageStoreAssumption, OwnRefs DEF MessageStoreAssumption, Instances, Entries, Root
<1>2. Good(m, "app", h) /\ IsMemory(m)
  BY DEF PageRead
<1>3. /\ \A f \in Entries \ {c} : k.map[f] = m.map[f]
      /\ k.map[c] \in {m.map[c], <<"app", c>>} /\ k.map[c] # None
      /\ \A x \in Refs : x # k.map[c] => k.object[x] = m.object[x]
      /\ Has(k.object[k.map[c]], Baked(m, c))
  BY <1>2, StoredEffect
<1>4. Good(k, "app", h) /\ IsMemory(k)
  BY <1>2, OneFileKept DEF Kept, Good
<1> HIDE DEF k
<1>5. /\ m.map[c] \in {None, <<"app", c>>}
      /\ \A f \in Entries : m.map[f] \in {None, <<"app", f>>} \union h
      /\ \A f \in Entries : m.map[f] \in Refs \union {None}
  BY <1>1, <1>2 DEF Good, OwnMap
<1>6. k.map[c] = <<"app", c>>
  BY <1>3, <1>5
<1>7. \A f \in Entries : f # c /\ m.map[f] # None =>
        k.map[f] = m.map[f] /\ k.object[k.map[f]] = m.object[m.map[f]]
  BY <1>1, <1>3, <1>5, <1>6
<1>8. /\ k.map[r] = n.map[r]
      /\ k.map[r] # None => k.object[k.map[r]] = n.object[n.map[r]]
  BY <1>1, <1>3, <1>7 DEF PageRead
<1>9. CASE c = e
  <2>1. /\ Has(k.object[k.map[e]], Files[e])
        /\ m.map[r] # None => HasBeside(k.object[k.map[e]], m.object[m.map[r]], Files[e])
    BY <1>2, <1>3, <1>9, BakedHas
  <2>2. n.map[r] # None => HasBeside(k.object[k.map[e]], n.object[n.map[r]], Files[e])
    BY <2>1 DEF PageRead
  <2> QED
    BY <1>4, <1>6, <1>8, <1>9, <2>1, <2>2 DEF PageRead, k
<1>10. CASE c # e
  <2>1. ASSUME e \in s
        PROVE  /\ k.map[e] = <<"app", e>>
               /\ Has(k.object[k.map[e]], Files[e])
               /\ n.map[r] # None =>
                    HasBeside(k.object[k.map[e]], n.object[n.map[r]], Files[e])
    <3>1. /\ m.map[e] = <<"app", e>>
          /\ Has(m.object[m.map[e]], Files[e])
          /\ n.map[r] # None => HasBeside(m.object[m.map[e]], n.object[n.map[r]], Files[e])
      BY <1>10, <2>1 DEF PageRead
    <3>2. m.map[e] # None
      BY <1>1, <3>1, MessageStoreAssumption DEF MessageStoreAssumption
    <3>3. k.map[e] = m.map[e] /\ k.object[k.map[e]] = m.object[m.map[e]]
      BY <1>1, <1>7, <1>10, <3>2
    <3> QED
      BY <3>1, <3>3
  <2> QED
    BY <1>4, <1>8, <2>1 DEF PageRead, k
<1> QED
  BY <1>9, <1>10

\* After the pages, each page has what was baked for it.
LEMMA PagesRead ==
  ASSUME NEW n, NEW h \in SUBSET Given, NEW read \in SUBSET DOMAIN Files,
         Good(n, "app", h), IsMemory(n), NEW e \in read, e # Root(e)
  PROVE  PageRead(WithPages(n, read), n, e, h, {f \in read : f # Root(f)})
<1> DEFINE files == {x \in read : x # Root(x)}
<1>1. IsFiniteSet(files)
  BY MessageStoreAssumption, FS_Subset DEF MessageStoreAssumption
<1>2. PICK f : FilesStep(n, files, f) /\ WithFiles(n, files) = f[files]
  BY <1>1, FilesStored
<1> DEFINE T == {s \in SUBSET files : PageRead(f[s], n, e, h, s)}
<1>3. /\ f[{}] = n
      /\ \A s \in SUBSET files : s # {} =>
           f[s] = Stored(f[s \ {CHOOSE x \in s : TRUE}], CHOOSE x \in s : TRUE)
  BY <1>2 DEF FilesStep
<1>4. {} \in T
  BY <1>3 DEF PageRead
<1>5. ASSUME NEW s \in SUBSET files, s # {}, \A x \in s : s \ {x} \in T
      PROVE  s \in T
  <2> DEFINE c == CHOOSE x \in s : TRUE
  <2>1. c \in s /\ c \in DOMAIN Files /\ c # Root(c)
    BY <1>5
  <2>2. f[s] = Stored(f[s \ {c}], c)
    BY <1>3, <1>5
  <2> HIDE DEF c
  <2>3. PageRead(f[s \ {c}], n, e, h, s \ {c})
    BY <1>5, <2>1
  <2>4. PageRead(f[s], n, e, h, s)
    BY <2>1, <2>2, <2>3, OnePageRead
  <2> QED
    BY <2>4
<1> HIDE DEF T, files
<1>6. SUBSET files \subseteq T
  BY <1>1, <1>4, <1>5, SubsetInduction
<1>7. PageRead(f[files], n, e, h, files)
  BY <1>6 DEF T
<1> QED
  BY <1>2, <1>7 DEF WithPages, files

\* After a load every page that was read has its own file in it and, beside
\* its sections, its locale's root file, whatever order the files are stored in
\* and whatever was stored before (node/src/i18n.ts:57-80).
THEOREM PagesBakeTheirRoot == Spec => PagesBakeRoot
<1>1. ASSUME OwnInv, NEW read \in SUBSET DOMAIN Files, LoadEnds(read), NEW e \in read,
             e # Root(e)
      PROVE  LET page == getCache("app", e)'
                 root == Files[Root(e)]
             IN  /\ \A p \in DOMAIN Files[e] : p \in DOMAIN page /\ page[p] = Files[e][p]
                 /\ Root(e) \in read /\ Unshared(Root(e), read) =>
                      \A q \in DOMAIN root :
                        (\A p \in DOMAIN Files[e] : ~Comparable(Cut(p, 2), Cut(q, 2))) =>
                          q \in DOMAIN page /\ page[q] = root[q]
  <2> DEFINE m == Memory("app")
             n == WithRoots(m, read)
             k == WithPages(n, read)
             r == Root(e)
  <2>1. /\ "app" \in Instances /\ e \in Entries /\ r \in Entries /\ r = Root(r)
        /\ handed \in SUBSET Given
    BY <1>1, MessageStoreAssumption
       DEF MessageStoreAssumption, Instances, Entries, Root, OwnInv
  <2>2. Good(m, "app", handed) /\ IsMemory(m)
    BY <1>1, <2>1, MemoryGood
  <2>3. Store("app", k)
    BY <1>1 DEF LoadEnds, Loaded
  <2>4. Good(n, "app", handed) /\ IsMemory(n)
    <3>1. n = WithFiles(m, {f \in read : f = Root(f)})
      BY DEF WithRoots
    <3> HIDE DEF m, n
    <3>2. Kept(m, n, "app", handed) /\ IsMemory(n)
      BY <1>1, <2>2, <3>1, FilesKept
    <3> QED
      BY <3>2 DEF Kept, Good
  <2>5. Unshared(r, read) => RootRead(n, r, handed, read, {f \in read : f = Root(f)})
    <3>1. Unshared(r, read) => RootRead(m, r, handed, read, {})
      BY <2>2 DEF Unshared, RootRead, Alone, Memory
    <3> HIDE DEF m
    <3> QED
      BY <1>1, <2>1, <3>1, RootsRead
  <2> HIDE DEF n
  <2>6. PageRead(k, n, e, handed, {f \in read : f # Root(f)})
    BY <1>1, <2>1, <2>4, PagesRead
  <2> HIDE DEF k, m
  <2>7. /\ k.map[e] = <<"app", e>>
        /\ Has(k.object[k.map[e]], Files[e])
        /\ n.map[r] # None => HasBeside(k.object[k.map[e]], n.object[n.map[r]], Files[e])
    BY <1>1, <2>6 DEF PageRead
  <2>8. getCache("app", e)' = k.object[k.map[e]]
    <3>1. entry'["app"] = k.map /\ object' = k.object
      BY <1>1, <2>1, <2>3 DEF Store, OwnInv
    <3>2. <<"app", e>> # None
      BY <2>1, MessageStoreAssumption, OwnRefs DEF MessageStoreAssumption
    <3> QED
      BY <2>7, <3>1, <3>2 DEF getCache
  <2>9. ASSUME r \in read, Unshared(r, read)
        PROVE  HasBeside(k.object[k.map[e]], Files[r], Files[e])
    <3>1. n.map[r] # None /\ Has(n.object[n.map[r]], Files[r])
      BY <2>1, <2>5, <2>9 DEF RootRead
    <3> QED
      BY <2>7, <3>1 DEF Has, HasBeside
  <2> HIDE DEF r
  <2> QED
    BY <2>7, <2>8, <2>9 DEF Has, HasBeside, r
<1>2. OwnInv => [\A read \in SUBSET DOMAIN Files : LoadEnds(read) =>
        \A e \in read : e # Root(e) =>
          LET page == getCache("app", e)'
              root == Files[Root(e)]
          IN  /\ \A p \in DOMAIN Files[e] : p \in DOMAIN page /\ page[p] = Files[e][p]
              /\ Root(e) \in read /\ Unshared(Root(e), read) =>
                   \A q \in DOMAIN root :
                     (\A p \in DOMAIN Files[e] : ~Comparable(Cut(p, 2), Cut(q, 2))) =>
                       q \in DOMAIN page /\ page[q] = root[q]]_vars
  BY <1>1
<1> QED
  BY <1>2, OwnInvariant, PTL DEF PagesBakeRoot

-----------------------------------------------------------------------------
(* Two layers as one tree *)

Below(tree, p) == {q \in DOMAIN tree : IsPrefix(p, q)}

\* Where one position leads to another, what compares with the one compares with the other.
LEMMA PrefixCompares ==
  ASSUME NEW p \in Positions, NEW q \in Positions, NEW r \in Positions, IsPrefix(p, q)
  PROVE  /\ Comparable(r, q) => Comparable(r, p)
         /\ IsPrefix(r, p) => IsPrefix(r, q)
         /\ IsPrefix(r, q) => Comparable(r, p)
<1>1. PICK s \in Positions : q = p \o s
  BY PrefixSplits
<1>2. Comparable(r, q) => Comparable(r, p)
  BY <1>1, BelowComparable, ComparableSymmetric
<1>3. IsPrefix(r, q) => Comparable(r, p)
  BY <1>2 DEF Comparable
<1>4. ASSUME IsPrefix(r, p)
      PROVE  IsPrefix(r, q)
  <2>1. /\ p \in Seq(Names) /\ q \in Seq(Names) /\ r \in Seq(Names)
        /\ Len(p) \in Nat /\ Len(q) \in Nat /\ Len(r) \in Nat
    BY LenProperties DEF Positions
  <2>2. Len(p) <= Len(q) /\ \A n \in 1..Len(p) : p[n] = q[n]
    BY <2>1, PrefixPoints
  <2>3. Len(r) <= Len(p) /\ \A n \in 1..Len(r) : r[n] = p[n]
    BY <1>4, <2>1, PrefixPoints
  <2>4. Len(r) <= Len(q) /\ \A n \in 1..Len(r) : r[n] = q[n]
    BY <2>1, <2>2, <2>3
  <2> QED
    BY <2>1, <2>4, PrefixPoints
<1> QED
  BY <1>2, <1>3, <1>4

LEMMA PrefixOfEach ==
  ASSUME NEW p \in Positions, NEW q \in Positions, IsPrefix(p, q), IsPrefix(q, p)
  PROVE  p = q
<1>1. /\ p \in Seq(Names) /\ q \in Seq(Names) /\ Len(p) \in Nat /\ Len(q) \in Nat
  BY LenProperties DEF Positions
<1>2. /\ Len(p) <= Len(q) /\ \A n \in 1..Len(p) : p[n] = q[n]
      /\ Len(q) <= Len(p)
  BY <1>1, PrefixPoints
<1> QED
  BY <1>1, <1>2, SeqEqual

LEMMA PrefixItself ==
  ASSUME NEW p \in Positions
  PROVE  IsPrefix(p, p) /\ Comparable(p, p)
<1>1. p \in Seq(Names) /\ Len(p) \in Nat
  BY LenProperties DEF Positions
<1>2. Len(p) <= Len(p)
  BY <1>1
<1> QED
  BY <1>2 DEF IsPrefix, Comparable

\* The prefixes of a position are its cuts.
LEMMA CutPrefix ==
  ASSUME NEW p \in Positions, NEW q \in Positions, IsStrictPrefix(q, p), q # <<>>
  PROVE  Len(q) \in 1..(Len(p) - 1) /\ Cut(p, Len(q)) = q
<1>1. /\ p \in Seq(Names) /\ q \in Seq(Names) /\ Len(p) \in Nat /\ Len(q) \in Nat
  BY LenProperties DEF Positions
<1>2. Len(q) <= Len(p) /\ \A n \in 1..Len(q) : q[n] = p[n]
  BY <1>1, PrefixPoints DEF IsStrictPrefix
<1>3. Len(q) # 0
  BY <1>1, EmptySeq
<1>4. Len(q) # Len(p)
  <2> SUFFICES ASSUME Len(q) = Len(p) PROVE FALSE
    OBVIOUS
  <2>1. q = p
    BY <1>1, <1>2, SeqEqual
  <2> QED
    BY <2>1 DEF IsStrictPrefix
<1>5. /\ Cut(p, Len(q)) \in Seq(Names)
      /\ Len(Cut(p, Len(q))) = Len(q)
      /\ \A n \in 1..Len(Cut(p, Len(q))) : Cut(p, Len(q))[n] = p[n]
  <2>1. /\ Cut(p, Len(q)) \in Seq(Names)
        /\ Len(Cut(p, Len(q))) = IF Len(q) < Len(p) THEN Len(q) ELSE Len(p)
        /\ \A n \in 1..Len(Cut(p, Len(q))) : Cut(p, Len(q))[n] = p[n]
    BY <1>1, CutPoints
  <2> QED
    BY <1>1, <1>2, <1>4, <2>1
<1>6. Cut(p, Len(q)) = q
  <2> DEFINE c == Cut(p, Len(q))
  <2> HIDE DEF c
  <2>1. c \in Seq(Names) /\ Len(c) = Len(q) /\ \A n \in 1..Len(q) : c[n] = q[n]
    BY <1>1, <1>2, <1>5 DEF c
  <2>2. c = q
    BY <1>1, <2>1, SeqEqual
  <2> QED
    BY <2>2 DEF c
<1> QED
  BY <1>1, <1>2, <1>3, <1>4, <1>6

\* Each cut of a position leads to it.
LEMMA CutIsPrefix ==
  ASSUME NEW p \in Positions, NEW n \in 1..(Len(p) - 1)
  PROVE  Cut(p, n) \in Positions /\ IsStrictPrefix(Cut(p, n), p) /\ Cut(p, n) # <<>>
<1>1. p \in Seq(Names) /\ Len(p) \in Nat /\ n \in Nat /\ n < Len(p) /\ n >= 1
  BY LenProperties DEF Positions
<1> DEFINE c == Cut(p, n)
<1>2. c \in Seq(Names) /\ Len(c) = n /\ \A j \in 1..n : c[j] = p[j]
  <2>1. /\ Cut(p, n) \in Seq(Names)
        /\ Len(Cut(p, n)) = IF n < Len(p) THEN n ELSE Len(p)
        /\ \A j \in 1..Len(Cut(p, n)) : Cut(p, n)[j] = p[j]
    BY <1>1, CutPoints
  <2> QED
    BY <1>1, <2>1
<1> HIDE DEF c
<1>3. IsPrefix(c, p)
  BY <1>1, <1>2, PrefixPoints
<1>4. c # p /\ c # <<>>
  BY <1>1, <1>2
<1> QED
  BY <1>2, <1>3, <1>4 DEF c, IsStrictPrefix, Positions

\* What stands at p is decided by what is below it.
LEMMA SameBelow ==
  ASSUME NEW one, NEW two, NEW p \in Positions,
         DOMAIN one \subseteq Positions,
         Below(one, p) = Below(two, p), \A q \in Below(one, p) : one[q] = two[q]
  PROVE  getAt(one, p) = getAt(two, p)
<1> DEFINE rest(q) == SubSeq(q, Len(p) + 1, Len(q))
<1>1. \A q \in Below(one, p) : q = p \o rest(q)
  BY PrefixSplits DEF Below
<1>2. getAt(one, p) = [r \in {rest(q) : q \in Below(one, p)} |-> one[p \o r]]
  BY DEF getAt, Below
<1>3. getAt(two, p) = [r \in {rest(q) : q \in Below(two, p)} |-> two[p \o r]]
  BY DEF getAt, Below
<1> HIDE DEF rest
<1>4. \A r \in {rest(q) : q \in Below(one, p)} : one[p \o r] = two[p \o r]
  BY <1>1
<1> QED
  BY <1>2, <1>3, <1>4

\* Where nothing stands, a lookup answers undefined.
LEMMA NothingBelow ==
  ASSUME NEW tree, NEW p, Below(tree, p) = {}
  PROVE  getAt(tree, p) = Undefined
<1>1. {SubSeq(q, Len(p) + 1, Len(q)) : q \in {q \in DOMAIN tree : IsPrefix(p, q)}} = {}
  BY DEF Below
<1> DEFINE none == {SubSeq(q, Len(p) + 1, Len(q)) : q \in {q \in DOMAIN tree : IsPrefix(p, q)}}
<1>2. getAt(tree, p) = [r \in none |-> tree[p \o r]]
  BY DEF getAt
<1> HIDE DEF none
<1>3. none = {}
  BY <1>1 DEF none
<1> QED
  BY <1>2, <1>3 DEF Undefined

LEMMA SomethingBelow ==
  ASSUME NEW tree, NEW p \in Positions, DOMAIN tree \subseteq Positions
  PROVE  /\ Below(tree, p) # {} => getAt(tree, p) # Undefined
         /\ p \notin DOMAIN tree => <<>> \notin DOMAIN getAt(tree, p)
<1> DEFINE rest(q) == SubSeq(q, Len(p) + 1, Len(q))
<1>1. DOMAIN getAt(tree, p) = {rest(q) : q \in Below(tree, p)}
  BY DEF getAt, Below
<1>2. \A q \in Below(tree, p) : q = p \o rest(q)
  BY PrefixSplits DEF Below
<1>3. DOMAIN Undefined = {}
  BY DEF Undefined
<1>4. p \o <<>> = p
  BY ConcatEmptySeq DEF Positions
<1> HIDE DEF rest
<1>5. Below(tree, p) # {} => DOMAIN getAt(tree, p) # {}
  BY <1>1
<1>6. ASSUME <<>> \in DOMAIN getAt(tree, p)
      PROVE  p \in DOMAIN tree
  <2>1. PICK q \in Below(tree, p) : rest(q) = <<>>
    BY <1>1, <1>6
  <2>2. q = p
    BY <1>2, <1>4, <2>1
  <2> QED
    BY <2>2 DEF Below
<1> QED
  BY <1>3, <1>5, <1>6

\* Where a leaf stands, a lookup answers that leaf.
LEMMA LeafBelow ==
  ASSUME NEW tree, NEW p \in Positions, p \in DOMAIN tree, Below(tree, p) = {p}
  PROVE  getAt(tree, p) = Leaf(tree[p])
<1> DEFINE rest(q) == SubSeq(q, Len(p) + 1, Len(q))
<1>1. getAt(tree, p) = [r \in {rest(q) : q \in Below(tree, p)} |-> tree[p \o r]]
  BY DEF getAt, Below
<1>2. p \o <<>> = p /\ rest(p) = <<>>
  <2>1. p \in Seq(Names) /\ Len(p) \in Nat
    BY LenProperties DEF Positions
  <2>2. p \o <<>> = p
    BY <2>1, ConcatEmptySeq
  <2>3. Len(p) < Len(p) + 1
    BY <2>1
  <2> QED
    BY <2>1, <2>2, <2>3, SubSeqEmpty
<1> HIDE DEF rest
<1>3. {rest(q) : q \in Below(tree, p)} = {<<>>}
  BY <1>2
<1>4. getAt(tree, p) = [r \in {<<>>} |-> tree[p]]
  BY <1>1, <1>2, <1>3
<1> QED
  BY <1>4 DEF Leaf

\* So it does at every position of a tree.
LEMMA OwnLeaf ==
  ASSUME NEW tree, IsObject(tree), NEW p \in DOMAIN tree
  PROVE  /\ p \in Positions /\ Below(tree, p) = {p} /\ getAt(tree, p) = Leaf(tree[p])
<1>1. p \in Positions /\ DOMAIN tree \subseteq Positions
  BY DEF IsObject, WellFormed
<1>2. IsPrefix(p, p)
  BY <1>1, PrefixItself
<1>3. \A q \in Below(tree, p) : q = p
  BY DEF Below, IsObject, WellFormed, Comparable
<1>4. Below(tree, p) = {p}
  BY <1>2, <1>3 DEF Below
<1> QED
  BY <1>1, <1>4, LeafBelow

\* null counts as a miss.
Hit(value) == IF value = Leaf(Nil) THEN Undefined ELSE value

\* The lower layer's leaves below a leaf of the upper layer.
Shadowed(lower, upper) ==
  {q \in DOMAIN lower : \E n \in 1..(Len(q) - 1) :
     Cut(q, n) \in DOMAIN upper /\ upper[Cut(q, n)] # Nil}

\* What the upper layer keeps to itself.
Held(lower, upper) ==
  {p \in DOMAIN upper :
     \/ upper[p] # Nil
     \/ \E n \in 1..(Len(p) - 1) : ~isPlainObject(lower, Cut(p, n))}

\* The dump of two layers: what the upper holds, and the lower beside that.
LEMMA MergedLayers ==
  ASSUME NEW lower, NEW upper
  PROVE  /\ DOMAIN mergeLayerTrees(lower, upper)
              = Held(lower, upper)
                  \union {q \in DOMAIN lower : \A h \in Held(lower, upper) : ~Comparable(h, q)}
         /\ \A h \in Held(lower, upper) : mergeLayerTrees(lower, upper)[h] = upper[h]
         /\ \A q \in DOMAIN lower :
              (\A h \in Held(lower, upper) : ~Comparable(h, q)) /\ q \notin Held(lower, upper) =>
                mergeLayerTrees(lower, upper)[q] = lower[q]
  BY DEF mergeLayerTrees, Held, Over, Clear

LEMMA MergedPositions ==
  ASSUME NEW lower, NEW upper, IsObject(lower), IsObject(upper)
  PROVE  /\ DOMAIN mergeLayerTrees(lower, upper) \subseteq DOMAIN lower \union DOMAIN upper
         /\ DOMAIN mergeLayerTrees(lower, upper) \subseteq Positions
         /\ Held(lower, upper) \subseteq DOMAIN upper
         /\ DOMAIN lower \subseteq Positions /\ DOMAIN upper \subseteq Positions
  BY MergedLayers DEF IsObject, WellFormed, Held

\* Where nothing held is at, above or below p, the lower layer shows.
LEMMA LowerShows ==
  ASSUME NEW lower, NEW upper, IsObject(lower), IsObject(upper), NEW p \in Positions,
         \A h \in Held(lower, upper) : ~Comparable(h, p)
  PROVE  getAt(mergeLayerTrees(lower, upper), p) = getAt(lower, p)
<1> DEFINE merged == mergeLayerTrees(lower, upper)
           held   == Held(lower, upper)
<1>1. /\ DOMAIN merged = held \union {q \in DOMAIN lower : \A h \in held : ~Comparable(h, q)}
      /\ \A q \in DOMAIN lower :
           (\A h \in held : ~Comparable(h, q)) /\ q \notin held => merged[q] = lower[q]
  BY MergedLayers
<1>2. /\ DOMAIN merged \subseteq Positions /\ held \subseteq Positions
      /\ DOMAIN lower \subseteq Positions
  BY MergedPositions
<1> HIDE DEF merged, held
<1>3. \A q \in Positions : IsPrefix(p, q) => q \notin held /\ \A h \in held : ~Comparable(h, q)
  <2>1. \A q \in Positions : IsPrefix(p, q) => \A h \in held : ~Comparable(h, q)
    BY <1>2, PrefixCompares DEF held
  <2>2. \A q \in Positions : IsPrefix(p, q) => q \notin held
    BY <2>1, PrefixItself
  <2> QED
    BY <2>1, <2>2
<1>4. Below(merged, p) = Below(lower, p) /\ \A q \in Below(lower, p) : merged[q] = lower[q]
  BY <1>1, <1>2, <1>3 DEF Below
<1> QED
  BY <1>2, <1>4, SameBelow DEF merged

\* Where something is held above p, nothing shows, and where it is held at p
\* that is what shows.
LEMMA HeldShows ==
  ASSUME NEW lower, NEW upper, IsObject(lower), IsObject(upper), NEW p \in Positions,
         NEW c \in Held(lower, upper), IsPrefix(c, p)
  PROVE  getAt(mergeLayerTrees(lower, upper), p) = IF c = p THEN Leaf(upper[p]) ELSE Undefined
<1> DEFINE merged == mergeLayerTrees(lower, upper)
           held   == Held(lower, upper)
<1>1. /\ DOMAIN merged = held \union {q \in DOMAIN lower : \A h \in held : ~Comparable(h, q)}
      /\ \A h \in held : merged[h] = upper[h]
      /\ \A q \in DOMAIN lower :
           (\A h \in held : ~Comparable(h, q)) /\ q \notin held => merged[q] = lower[q]
  BY MergedLayers
<1>2. /\ DOMAIN merged \subseteq Positions /\ held \subseteq DOMAIN upper
      /\ DOMAIN upper \subseteq Positions /\ c \in held
  BY MergedPositions
<1> HIDE DEF merged, held
<1>3. \A q \in Below(merged, p) : q = c
  <2> SUFFICES ASSUME NEW q \in Below(merged, p) PROVE q = c
    OBVIOUS
  <2>1. q \in Positions /\ IsPrefix(p, q) /\ c \in Positions
    BY <1>2 DEF Below
  <2>2. IsPrefix(c, q)
    BY <2>1, PrefixCompares
  <2>3. q \in held
    BY <1>1, <1>2, <2>2 DEF Below, Comparable
  <2> QED
    BY <1>2, <2>2, <2>3 DEF IsObject, WellFormed, Comparable
<1>4. CASE c = p
  <2>1. Below(merged, p) = {p} /\ p \in DOMAIN merged /\ merged[p] = upper[p]
    BY <1>1, <1>2, <1>3, <1>4, PrefixItself DEF Below
  <2> QED
    BY <1>4, <2>1, LeafBelow DEF merged
<1>5. CASE c # p
  <2>1. Below(merged, p) = {}
    <3> SUFFICES ASSUME NEW q \in Below(merged, p) PROVE FALSE
      OBVIOUS
    <3>1. IsPrefix(p, c) /\ c \in Positions
      BY <1>2, <1>3 DEF Below
    <3> QED
      BY <1>5, <3>1, PrefixOfEach
  <2> QED
    BY <1>5, <2>1, NothingBelow DEF merged
<1> QED
  BY <1>4, <1>5

\* A shadowed leaf is what a lookup falls through to.
LEMMA ShadowedAnswer ==
  ASSUME NEW lower, NEW upper, IsObject(lower), IsObject(upper),
         NEW p \in Shadowed(lower, upper)
  PROVE  /\ getAt(upper, p) = Undefined
         /\ getAt(lower, p) = Leaf(lower[p])
<1>1. PICK n \in 1..(Len(p) - 1) : Cut(p, n) \in DOMAIN upper
  BY DEF Shadowed
<1>2. p \in DOMAIN lower /\ p \in Positions /\ getAt(lower, p) = Leaf(lower[p])
  BY OwnLeaf DEF Shadowed
<1> DEFINE c == Cut(p, n)
<1>3. c \in Positions /\ IsPrefix(c, p) /\ c # p /\ c \in DOMAIN upper
  BY <1>1, <1>2, CutIsPrefix DEF IsStrictPrefix
<1> HIDE DEF c
<1>4. Below(upper, p) = {}
  <2> SUFFICES ASSUME NEW q \in Below(upper, p) PROVE FALSE
    OBVIOUS
  <2>1. q \in Positions /\ q \in DOMAIN upper /\ IsPrefix(p, q)
    BY DEF Below, IsObject, WellFormed
  <2>2. IsPrefix(c, q)
    BY <1>2, <1>3, <2>1, PrefixCompares
  <2>3. q = c
    BY <1>3, <2>1, <2>2 DEF IsObject, WellFormed, Comparable
  <2> QED
    BY <1>2, <1>3, <2>1, <2>3, PrefixOfEach
<1> QED
  BY <1>2, <1>4, NothingBelow

\* What the dump has at a position is what a lookup there answers.
Agrees(answer, dumped) ==
  (IsLeaf(answer) \/ IsLeaf(dumped) \/ answer = Undefined) => dumped = answer

\* At a position that no leaf of the upper layer shadows, the dump has what a
\* lookup answers: the upper layer first, and null as a miss.
LEMMA LayersAgree ==
  ASSUME NEW lower, NEW upper, IsObject(lower), IsObject(upper), NEW p \in Positions,
         p # <<>>, p \notin Shadowed(lower, upper)
  PROVE  LET here  == Hit(getAt(upper, p))
             there == Hit(getAt(lower, p))
         IN  Agrees(IF here # Undefined THEN here ELSE there,
                    Hit(getAt(mergeLayerTrees(lower, upper), p)))
<1> DEFINE here  == Hit(getAt(upper, p))
           there == Hit(getAt(lower, p))
           dump  == getAt(mergeLayerTrees(lower, upper), p)
           held  == Held(lower, upper)
<1>0. DOMAIN Undefined = {} /\ ~IsLeaf(Undefined) /\ Hit(Undefined) = Undefined
  BY DEF Undefined, IsLeaf, Hit, Leaf
<1>1. /\ DOMAIN lower \subseteq Positions /\ DOMAIN upper \subseteq Positions
      /\ held \subseteq DOMAIN upper
      /\ DOMAIN mergeLayerTrees(lower, upper) \subseteq Positions
  BY MergedPositions
<1>2. IsPrefix(p, p) /\ Comparable(p, p)
  BY PrefixItself
<1>3. CASE p \in held
  <2>1. getAt(upper, p) = Leaf(upper[p]) /\ dump = Leaf(upper[p])
    BY <1>1, <1>2, <1>3, OwnLeaf, HeldShows
  <2>2. CASE upper[p] # Nil
    <3>1. Leaf(upper[p]) # Undefined /\ Leaf(upper[p]) # Leaf(Nil)
      <4>1. Leaf(upper[p])[<<>>] = upper[p] /\ Leaf(Nil)[<<>>] = Nil
        BY DEF Leaf
      <4>2. DOMAIN Leaf(upper[p]) = {<<>>}
        BY DEF Leaf
      <4> QED
        BY <1>0, <2>2, <4>1, <4>2
    <3> QED
      BY <2>1, <3>1 DEF Hit, Agrees
  <2>3. CASE upper[p] = Nil
    <3>1. PICK n \in 1..(Len(p) - 1) : ~isPlainObject(lower, Cut(p, n))
      BY <1>3, <2>3 DEF Held
    <3>2. Below(lower, p) = {}
      <4> SUFFICES ASSUME NEW q \in Below(lower, p) PROVE FALSE
        OBVIOUS
      <4>1. q \in Positions /\ q \in DOMAIN lower /\ IsPrefix(p, q)
        BY <1>1 DEF Below
      <4>2. Cut(p, n) \in Positions /\ IsPrefix(Cut(p, n), p) /\ Cut(p, n) # p
        BY <3>1, CutIsPrefix DEF IsStrictPrefix
      <4>3. IsPrefix(Cut(p, n), q)
        BY <4>1, <4>2, PrefixCompares
      <4>4. q # Cut(p, n)
        BY <4>1, <4>2, PrefixOfEach
      <4> QED
        BY <3>1, <4>1, <4>3, <4>4 DEF isPlainObject, IsStrictPrefix
    <3>3. there = Undefined
      BY <1>0, <3>2, NothingBelow
    <3>4. here = Undefined /\ Hit(dump) = Undefined
      BY <2>1, <2>3 DEF Hit
    <3> QED
      BY <3>3, <3>4 DEF Agrees
  <2> QED
    BY <2>2, <2>3
<1>4. CASE p \notin held /\ p \in DOMAIN upper
  <2>1. upper[p] = Nil /\ getAt(upper, p) = Leaf(Nil)
    BY <1>4, OwnLeaf DEF Held
  <2>2. \A h \in held : ~Comparable(h, p)
    BY <1>1, <1>4 DEF IsObject, WellFormed
  <2>3. dump = getAt(lower, p)
    BY <2>2, LowerShows
  <2> QED
    BY <2>1, <2>3 DEF Hit, Agrees
<1>5. CASE p \notin DOMAIN upper /\ Below(upper, p) # {}
  <2>1. /\ getAt(upper, p) # Undefined /\ <<>> \notin DOMAIN getAt(upper, p)
    BY <1>1, <1>5, SomethingBelow
  <2>2. here = getAt(upper, p) /\ here # Undefined /\ ~IsLeaf(here)
    <3>1. <<>> \in DOMAIN Leaf(Nil)
      BY DEF Leaf
    <3> QED
      BY <2>1, <3>1 DEF Hit, IsLeaf
  <2>3. p \notin DOMAIN mergeLayerTrees(lower, upper)
    <3> SUFFICES ASSUME p \in DOMAIN mergeLayerTrees(lower, upper) PROVE FALSE
      OBVIOUS
    <3>1. p \in DOMAIN lower /\ \A h \in held : ~Comparable(h, p)
      BY <1>1, <1>5, MergedLayers
    <3>2. PICK q \in Below(upper, p) : TRUE
      BY <1>5
    <3>3. q \in DOMAIN upper /\ q \in Positions /\ IsStrictPrefix(p, q)
      BY <1>1, <1>5, <3>2 DEF Below, IsStrictPrefix
    <3>4. Len(p) \in 1..(Len(q) - 1) /\ Cut(q, Len(p)) = p
      BY <3>3, CutPrefix
    <3>5. ~isPlainObject(lower, p)
      BY <3>1 DEF isPlainObject, IsStrictPrefix, IsObject, WellFormed, Comparable
    <3>6. q \in held
      BY <3>3, <3>4, <3>5 DEF Held
    <3> QED
      BY <3>1, <3>3, <3>6 DEF Comparable, IsStrictPrefix
  <2>4. <<>> \notin DOMAIN dump
    BY <1>1, <2>3, SomethingBelow
  <2>5. ~IsLeaf(Hit(dump))
    BY <1>0, <2>4 DEF Hit, IsLeaf
  <2> QED
    BY <2>2, <2>5 DEF Agrees
<1>6. CASE p \notin DOMAIN upper /\ Below(upper, p) = {}
  <2>1. here = Undefined
    BY <1>0, <1>6, NothingBelow
  <2>2. \A h \in held : Comparable(h, p) => IsPrefix(h, p)
    BY <1>1, <1>6 DEF Below, Comparable
  <2>3. CASE \E c \in held : IsPrefix(c, p)
    <3>1. PICK c \in held : IsPrefix(c, p)
      BY <2>3
    <3>2. c \in DOMAIN upper /\ c \in Positions /\ c # p /\ c # <<>> /\ IsStrictPrefix(c, p)
      BY <1>1, <1>6, <3>1 DEF IsObject, IsStrictPrefix
    <3>3. dump = Undefined
      BY <3>1, <3>2, HeldShows
    <3>4. Len(c) \in 1..(Len(p) - 1) /\ Cut(p, Len(c)) = c
      BY <3>2, CutPrefix
    <3>5. CASE upper[c] # Nil
      <4>1. p \notin DOMAIN lower
        BY <3>2, <3>4, <3>5 DEF Shadowed
      <4>2. <<>> \notin DOMAIN getAt(lower, p)
        BY <1>1, <4>1, SomethingBelow
      <4>3. there = Undefined \/ ~IsLeaf(there)
        BY <4>2 DEF Hit, IsLeaf
      <4> QED
        BY <1>0, <2>1, <3>3, <4>3 DEF Agrees
    <3>6. CASE upper[c] = Nil
      <4>1. PICK n \in 1..(Len(c) - 1) : ~isPlainObject(lower, Cut(c, n))
        BY <3>1, <3>6 DEF Held
      <4>2. Below(lower, p) = {}
        <5> SUFFICES ASSUME NEW q \in Below(lower, p) PROVE FALSE
          OBVIOUS
        <5>1. q \in Positions /\ q \in DOMAIN lower /\ IsPrefix(p, q)
          BY <1>1 DEF Below
        <5> DEFINE b == Cut(c, n)
        <5>2. b \in Positions /\ IsPrefix(b, c) /\ b # c
          BY <3>2, <4>1, CutIsPrefix DEF IsStrictPrefix
        <5> HIDE DEF b
        <5>3. IsPrefix(b, p) /\ IsPrefix(b, q) /\ IsPrefix(c, q)
          BY <3>1, <3>2, <5>1, <5>2, PrefixCompares
        <5>4. q # b
          BY <3>2, <5>2, <5>3, PrefixOfEach
        <5> QED
          BY <4>1, <5>1, <5>3, <5>4 DEF isPlainObject, IsStrictPrefix, b
      <4>3. there = Undefined
        BY <1>0, <4>2, NothingBelow
      <4> QED
        BY <1>0, <2>1, <3>3, <4>3 DEF Agrees
    <3> QED
      BY <3>5, <3>6
  <2>4. CASE ~ \E c \in held : IsPrefix(c, p)
    <3>1. dump = getAt(lower, p)
      BY <2>2, <2>4, LowerShows
    <3> QED
      BY <2>1, <3>1 DEF Agrees
  <2> QED
    BY <2>3, <2>4
<1> QED
  BY <1>1, <1>3, <1>4, <1>5, <1>6

\* The place of a key in a dictionary of sections.
Nested(key) == [n \in 1..Len(key) |-> << key[n] >>]

\* It is a position as long as the key.
LEMMA NestedPoints ==
  ASSUME NEW key \in Names \ {<<>>}
  PROVE  /\ key \in Seq(Segments) /\ Len(key) \in Nat \ {0}
         /\ Nested(key) \in Positions /\ Len(Nested(key)) = Len(key) /\ Nested(key) # <<>>
         /\ \A n \in 1..Len(key) : Nested(key)[n] = << key[n] >>
<1>1. /\ key \in Seq(Segments) /\ Len(key) \in Nat \ {0}
      /\ \A n \in 1..Len(key) : key[n] \in Segments
  BY PlacePoints, ElementOfSeq DEF Names
<1>2. \A n \in 1..Len(key) : << key[n] >> \in Names
  BY <1>1 DEF Names
<1> DEFINE p == [n \in 1..Len(key) |-> << key[n] >>]
<1>3. p \in Seq(Names)
  BY <1>1, <1>2, IsASeq
<1>4. Len(p) = Len(key) /\ \A n \in 1..Len(key) : p[n] = << key[n] >>
  BY <1>1, <1>3, LenProperties
<1>5. p # <<>>
  BY <1>1, <1>3, <1>4, EmptySeq
<1> QED
  BY <1>1, <1>3, <1>4, <1>5 DEF Nested, Positions

\* Names of one segment each, as one name: FlattenSeq's function is the one
\* that has, for each i, the segments of the first i names.
LEMMA FlattenSegments ==
  ASSUME NEW p \in Positions, p # <<>>, \A n \in 1..Len(p) : Len(p[n]) = 1
  PROVE  /\ FlattenSeq(p) \in Names \ {<<>>}
         /\ Len(FlattenSeq(p)) = Len(p)
         /\ Nested(FlattenSeq(p)) = p
<1> DEFINE pre(i) == [n \in 1..i |-> p[n][1]]
           Eq(f) == f = [i \in 1..Len(p) |-> IF i = 1 THEN p[i] ELSE f[i - 1] \o p[i]]
           f == CHOOSE g : Eq(g)
<1>1. /\ p \in Seq(Names) /\ Len(p) \in Nat \ {0}
      /\ \A n \in 1..Len(p) : p[n] \in Seq(Segments) /\ p[n][1] \in Segments
  <2>1. p \in Seq(Names) /\ Len(p) \in Nat
    BY LenProperties DEF Positions
  <2>2. Len(p) # 0
    BY <2>1, EmptySeq
  <2>3. \A n \in 1..Len(p) : p[n] \in Seq(Segments)
    BY <2>1, ElementOfSeq DEF Names
  <2> QED
    BY <2>1, <2>2, <2>3, ElementOfSeq
<1>2. \A i \in 1..Len(p) : pre(i) \in Seq(Segments) /\ Len(pre(i)) = i
  <2> SUFFICES ASSUME NEW i \in 1..Len(p)
               PROVE  pre(i) \in Seq(Segments) /\ Len(pre(i)) = i
    OBVIOUS
  <2>1. i \in Nat /\ \A n \in 1..i : n \in 1..Len(p)
    BY <1>1
  <2>2. pre(i) \in Seq(Segments)
    BY <1>1, <2>1, IsASeq
  <2>3. DOMAIN pre(i) = 1..i
    OBVIOUS
  <2> HIDE DEF pre
  <2> QED
    BY <2>1, <2>2, <2>3, LenProperties
<1>3. pre(1) = p[1]
  <2>1. pre(1) \in Seq(Segments) /\ Len(pre(1)) = 1 /\ pre(1)[1] = p[1][1]
    BY <1>1, <1>2
  <2>2. p[1] \in Seq(Segments) /\ Len(p[1]) = 1
    BY <1>1
  <2> HIDE DEF pre
  <2> QED
    BY <2>1, <2>2, SeqEqual
<1>4. \A i \in 2..Len(p) : pre(i - 1) \o p[i] = pre(i)
  <2> SUFFICES ASSUME NEW i \in 2..Len(p)
               PROVE  pre(i - 1) \o p[i] = pre(i)
    OBVIOUS
  <2> DEFINE a == pre(i - 1)
             b == pre(i)
  <2>1. /\ i \in 1..Len(p) /\ i - 1 \in 1..Len(p)
        /\ a \in Seq(Segments) /\ Len(a) = i - 1
        /\ b \in Seq(Segments) /\ Len(b) = i
        /\ p[i] \in Seq(Segments) /\ Len(p[i]) = 1
    BY <1>1, <1>2
  <2>2. /\ \A n \in 1..(i - 1) : a[n] = p[n][1]
        /\ \A n \in 1..i : b[n] = p[n][1]
    OBVIOUS
  <2> HIDE DEF a, b, pre
  <2> DEFINE c == p[i]
  <2>a. c \in Seq(Segments) /\ Len(c) = 1
    BY <2>1
  <2> HIDE DEF c
  <2>b. /\ a \o c \in Seq(Segments)
        /\ Len(a \o c) = Len(a) + Len(c)
        /\ \A n \in 1..(Len(a) + Len(c)) : (a \o c)[n] = IF n <= Len(a) THEN a[n] ELSE c[n - Len(a)]
    BY <2>1, <2>a, ConcatProperties
  <2>c. i \in Nat /\ (i - 1) + 1 = i
    OBVIOUS
  <2>d. Len(a) + Len(c) = i
    BY <2>1, <2>a, <2>c
  <2>3. /\ a \o c \in Seq(Segments) /\ Len(a \o c) = i
        /\ \A n \in 1..i : (a \o c)[n] = IF n <= i - 1 THEN a[n] ELSE c[n - (i - 1)]
    BY <2>1, <2>b, <2>d
  <2>4. \A n \in 1..i : (a \o c)[n] = b[n]
    <3> SUFFICES ASSUME NEW n \in 1..i PROVE (a \o c)[n] = b[n]
      OBVIOUS
    <3>1. CASE n <= i - 1
      <4>1. n \in 1..(i - 1)
        BY <2>c, <3>1
      <4>2. (a \o c)[n] = a[n]
        BY <2>3, <3>1
      <4>3. a[n] = p[n][1] /\ b[n] = p[n][1]
        BY <2>2, <4>1
      <4> QED
        BY <4>2, <4>3
    <3>2. CASE n = i
      <4>1. ~(i <= i - 1) /\ i - (i - 1) = 1 /\ i \in 1..i
        BY <2>c
      <4>2. (a \o c)[i] = c[1]
        BY <2>3, <4>1
      <4>3. b[i] = c[1]
        BY <2>2, <4>1 DEF c
      <4> QED
        BY <3>2, <4>2, <4>3
    <3>3. n <= i - 1 \/ n = i
      BY <2>c
    <3> QED
      BY <3>1, <3>2, <3>3
  <2>5. a \o c = b
    BY <2>1, <2>3, <2>4, SeqEqual
  <2> QED
    BY <2>5 DEF a, b, c
<1> HIDE DEF pre
<1>5. Eq([i \in 1..Len(p) |-> pre(i)])
  <2> DEFINE g == [i \in 1..Len(p) |-> pre(i)]
  <2>1. ASSUME NEW i \in 1..Len(p)
        PROVE  g[i] = IF i = 1 THEN p[i] ELSE g[i - 1] \o p[i]
    <3>1. CASE i = 1
      BY <1>3, <3>1
    <3>2. CASE i # 1
      <4>1. i \in 2..Len(p) /\ i - 1 \in 1..Len(p)
        BY <1>1, <3>2
      <4> QED
        BY <1>4, <3>2, <4>1
    <3> QED
      BY <3>1, <3>2
  <2> QED
    BY <2>1
<1>6. Eq(f)
  <2>1. \E g : Eq(g)
    BY <1>5
  <2> HIDE DEF Eq
  <2> QED
    BY <2>1
<1> HIDE DEF f
<1>7. \A i \in 1..Len(p) : f[i] = pre(i)
  <2> SUFFICES ASSUME NEW j \in 1..Len(p), f[j] # pre(j)
               PROVE  FALSE
    OBVIOUS
  <2> DEFINE Bad == {i \in 1..Len(p) : f[i] # pre(i)}
  <2>1. Bad \in SUBSET Nat /\ Bad # {}
    BY <1>1
  <2>2. PICK i \in Bad : \A n \in Bad : i <= n
    <3> HIDE DEF Bad
    <3> QED
      BY <2>1, LeastNatural
  <2>3. CASE i = 1
    <3>1. f[1] = p[1]
      BY <1>1, <1>6
    <3> QED
      BY <1>3, <2>2, <2>3, <3>1
  <2>4. CASE i # 1
    <3>1. i \in 2..Len(p) /\ i - 1 \in 1..Len(p) /\ i - 1 \notin Bad
      BY <1>1, <2>2, <2>4
    <3>2. f[i] = f[i - 1] \o p[i]
      BY <1>6, <2>4, <3>1
    <3>3. f[i - 1] = pre(i - 1)
      BY <3>1
    <3> QED
      BY <1>4, <2>2, <3>1, <3>2, <3>3
  <2> QED
    BY <2>3, <2>4
<1>8. FlattenSeq(p) = f[Len(p)]
  BY <1>1 DEF FlattenSeq, f
<1>9. FlattenSeq(p) = pre(Len(p))
  BY <1>1, <1>7, <1>8
<1> DEFINE w == FlattenSeq(p)
<1>10. /\ w \in Seq(Segments) /\ Len(w) = Len(p)
       /\ \A n \in 1..Len(p) : w[n] = p[n][1]
  <2>1. \A n \in 1..Len(p) : pre(Len(p))[n] = p[n][1]
    BY DEF pre
  <2> QED
    BY <1>1, <1>2, <1>9, <2>1
<1> HIDE DEF w
<1>11. w # <<>>
  BY <1>1, <1>10
<1>12. Nested(w) = p
  <2>1. w \in Names \ {<<>>}
    BY <1>10, <1>11 DEF Names
  <2>2. Nested(w) \in Seq(Names) /\ Len(Nested(w)) = Len(p)
    BY <1>10, <2>1, NestedPoints DEF Positions
  <2>3. \A n \in 1..Len(p) : Nested(w)[n] = p[n]
    <3> SUFFICES ASSUME NEW n \in 1..Len(p) PROVE Nested(w)[n] = p[n]
      OBVIOUS
    <3>1. Nested(w)[n] = << p[n][1] >>
      BY <1>10, <2>1, NestedPoints
    <3>2. p[n] \in Seq(Segments) /\ Len(p[n]) = 1 /\ p[n][1] \in Segments
      BY <1>1
    <3>3. << p[n][1] >> = p[n]
      BY <3>2, SeqEqual
    <3> QED
      BY <3>1, <3>3
  <2> QED
    BY <1>1, <2>2, <2>3, SeqEqual
<1> QED
  BY <1>10, <1>11, <1>12 DEF w, Names

\* Keys and the positions they name are one to one.
LEMMA NestedInjective ==
  ASSUME NEW k \in Names \ {<<>>}, NEW j \in Names \ {<<>>}, Nested(k) = Nested(j)
  PROVE  k = j
<1>1. /\ k \in Seq(Segments) /\ Len(Nested(k)) = Len(k)
      /\ \A n \in 1..Len(k) : Nested(k)[n] = << k[n] >>
  BY NestedPoints
<1>2. /\ j \in Seq(Segments) /\ Len(Nested(j)) = Len(j)
      /\ \A n \in 1..Len(j) : Nested(j)[n] = << j[n] >>
  BY NestedPoints
<1>3. \A n \in 1..Len(k) : << k[n] >>[1] = << j[n] >>[1]
  BY <1>1, <1>2
<1>4. Len(k) = Len(j) /\ \A n \in 1..Len(k) : k[n] = j[n]
  BY <1>1, <1>2, <1>3
<1> QED
  BY <1>1, <1>2, <1>4, SeqEqual

\* A key is looked up at the position it names, where no name of several
\* segments is that key.
LEMMA NestedLookup ==
  ASSUME NEW tree, NEW key \in Names \ {<<>>}, hasFlat(tree, key) => Len(key) = 1
  PROVE  getByPath(tree, key) = getAt(tree, Nested(key))
<1>1. /\ Place(tree, key) \in Positions
      /\ hasFlat(tree, key) => Place(tree, key) = << key >>
      /\ ~hasFlat(tree, key) =>
           /\ Len(Place(tree, key)) = Len(key)
           /\ \A n \in 1..Len(key) : Place(tree, key)[n] = << key[n] >>
  BY PlacePoints
<1>2. /\ key \in Seq(Segments) /\ Nested(key) \in Positions /\ Len(Nested(key)) = Len(key)
      /\ \A n \in 1..Len(key) : Nested(key)[n] = << key[n] >>
  BY NestedPoints
<1>3. CASE hasFlat(tree, key)
  <2>1. Len(key) = 1 /\ key[1] \in Segments
    BY <1>2, <1>3, ElementOfSeq
  <2>2. key = << key[1] >>
    BY <1>2, <2>1, SeqEqual
  <2>3. Nested(key) \in Seq(Names) /\ Len(Nested(key)) = 1 /\ Nested(key)[1] = key
    BY <1>2, <2>1, <2>2 DEF Positions
  <2>4. << key >> \in Seq(Names) /\ Len(<< key >>) = 1 /\ << key >>[1] = key
    OBVIOUS
  <2>5. << key >> = Nested(key)
    BY <2>3, <2>4, SeqEqual
  <2> QED
    BY <1>1, <1>3, <2>5 DEF getByPath
<1>4. CASE ~hasFlat(tree, key)
  <2>1. Place(tree, key) = Nested(key)
    BY <1>1, <1>2, <1>4, SeqEqual DEF Positions
  <2> QED
    BY <2>1 DEF getByPath
<1> QED
  BY <1>3, <1>4

\* In a flat dictionary a key is looked up among the names.
LEMMA FlatLookup ==
  ASSUME NEW tree, NEW key \in Names \ {<<>>}, DOMAIN tree \subseteq Positions,
         \A p \in DOMAIN tree : Len(p) = 1
  PROVE  getByPath(tree, key) = getAt(tree, << key >>)
<1>1. << key >> \in Positions /\ << key >> \in Seq(Names) /\ Len(<< key >>) = 1
  BY DEF Positions
<1>2. CASE hasFlat(tree, key)
  BY <1>2 DEF getByPath, Place
<1>3. CASE ~hasFlat(tree, key) /\ Len(key) = 1
  <2>1. getByPath(tree, key) = getAt(tree, Nested(key))
    BY <1>3, NestedLookup
  <2>2. key \in Seq(Segments) /\ Nested(key) \in Seq(Names) /\ Len(Nested(key)) = 1
        /\ Nested(key)[1] = << key[1] >> /\ key[1] \in Segments
    BY <1>3, NestedPoints, ElementOfSeq DEF Positions
  <2>3. key = << key[1] >>
    BY <1>3, <2>2, SeqEqual
  <2>4. Nested(key) = << key >>
    BY <1>1, <2>2, <2>3, SeqEqual
  <2> QED
    BY <2>1, <2>4
<1>4. CASE ~hasFlat(tree, key) /\ Len(key) # 1
  <2>1. getByPath(tree, key) = getAt(tree, Nested(key))
    BY <1>4, NestedLookup
  <2>a. Nested(key) \in Seq(Names) /\ Len(Nested(key)) = Len(key) /\ Len(key) \in Nat \ {0}
    BY NestedPoints DEF Positions
  <2>2. /\ Nested(key) \in Seq(Names) /\ Len(Nested(key)) \in Nat
        /\ Len(Nested(key)) > 1
    BY <1>4, <2>a
  <2>3. Below(tree, Nested(key)) = {}
    <3> SUFFICES ASSUME NEW q \in Below(tree, Nested(key)) PROVE FALSE
      OBVIOUS
    <3>1. q \in Seq(Names) /\ IsPrefix(Nested(key), q) /\ Len(q) = 1
      BY DEF Below, Positions
    <3>2. Len(Nested(key)) <= Len(q)
      BY <2>2, <3>1, PrefixPoints
    <3> QED
      BY <2>2, <3>1, <3>2
  <2>4. Below(tree, << key >>) = {}
    <3> SUFFICES ASSUME NEW q \in Below(tree, << key >>) PROVE FALSE
      OBVIOUS
    <3>1. q \in DOMAIN tree /\ q \in Seq(Names) /\ IsPrefix(<< key >>, q) /\ Len(q) = 1
      BY DEF Below, Positions
    <3> DEFINE k1 == << key >>
    <3>a. k1 \in Seq(Names) /\ Len(k1) = 1 /\ k1[1] = key /\ IsPrefix(k1, q)
      BY <1>1, <3>1
    <3> HIDE DEF k1
    <3>2. \A n \in 1..Len(k1) : k1[n] = q[n]
      BY <3>1, <3>a, PrefixPoints
    <3>3. q[1] = key
      BY <3>a, <3>2
    <3> QED
      BY <1>4, <3>1, <3>3 DEF hasFlat
  <2> QED
    BY <2>1, <2>3, <2>4, NothingBelow
<1> QED
  BY <1>2, <1>3, <1>4

LEMMA ResolvesByPath ==
  ASSUME NEW tree, NEW key
  PROVE  resolveTranslation(tree, key) = Hit(getByPath(tree, key))
  BY DEF resolveTranslation, Hit

\* The leaves a dump adds under dotted names.
LEMMA ShadowedNames ==
  ASSUME NEW lower, NEW upper
  PROVE  /\ \A q \in Shadowed(lower, upper) :
              << FlattenSeq(q) >> \in DOMAIN collectShadowedLeaves(lower, upper)
         /\ \A p \in DOMAIN collectShadowedLeaves(lower, upper) :
              \E q \in Shadowed(lower, upper) :
                /\ p = << FlattenSeq(q) >>
                /\ collectShadowedLeaves(lower, upper)[p] = lower[q]
<1> DEFINE hidden == Shadowed(lower, upper)
           added  == collectShadowedLeaves(lower, upper)
           flat(q) == << FlattenSeq(q) >>
<1>1. added = [p \in {flat(q) : q \in hidden} |-> lower[CHOOSE q \in hidden : flat(q) = p]]
  BY DEF collectShadowedLeaves, Shadowed
<1> HIDE DEF added, hidden, flat
<1>2. DOMAIN added = {flat(q) : q \in hidden}
  BY <1>1
<1>3. ASSUME NEW p \in DOMAIN added
      PROVE  \E q \in hidden : p = flat(q) /\ added[p] = lower[q]
  <2>1. added[p] = lower[CHOOSE q \in hidden : flat(q) = p]
    BY <1>1, <1>2
  <2>2. \E q \in hidden : flat(q) = p
    BY <1>2
  <2>3. /\ (CHOOSE q \in hidden : flat(q) = p) \in hidden
        /\ flat(CHOOSE q \in hidden : flat(q) = p) = p
    BY <2>2
  <2> QED
    BY <2>1, <2>3
<1> QED
  BY <1>2, <1>3 DEF added, hidden, flat

\* What a member's name decides at depth one.
LEMMA FirstNames ==
  ASSUME NEW p \in Positions, NEW q \in Positions, p # <<>>, q # <<>>
  PROVE  Comparable(Cut(p, 1), Cut(q, 1)) <=> p[1] = q[1]
<1>1. p \in Seq(Names) /\ Len(p) \in Nat \ {0} /\ q \in Seq(Names) /\ Len(q) \in Nat \ {0}
  BY LenProperties, EmptySeq DEF Positions
<1>2. ASSUME NEW r \in Seq(Names), Len(r) \in Nat \ {0}
      PROVE  Cut(r, 1) \in Seq(Names) /\ Len(Cut(r, 1)) = 1 /\ Cut(r, 1)[1] = r[1]
  <2> DEFINE c == Cut(r, 1)
  <2>1. /\ c \in Seq(Names)
        /\ Len(c) = IF 1 < Len(r) THEN 1 ELSE Len(r)
        /\ \A n \in 1..Len(c) : c[n] = r[n]
    BY CutPoints
  <2> HIDE DEF c
  <2>2. Len(c) = 1
    BY <1>2, <2>1
  <2> QED
    BY <2>1, <2>2 DEF c
<1> DEFINE a == Cut(p, 1)
           b == Cut(q, 1)
<1>4. a \in Seq(Names) /\ Len(a) = 1 /\ a[1] = p[1] /\ b \in Seq(Names) /\ Len(b) = 1 /\ b[1] = q[1]
  BY <1>1, <1>2
<1> HIDE DEF a, b
<1>5. Comparable(a, b) <=> \A n \in 1..Len(a) : n <= Len(b) => a[n] = b[n]
  BY <1>4, ComparablePoints
<1>6. Comparable(a, b) <=> a[1] = b[1]
  BY <1>4, <1>5
<1> QED
  BY <1>4, <1>6 DEF a, b

\* A position that leads to another begins as it does.
LEMMA FirstOfPrefix ==
  ASSUME NEW p \in Positions, NEW q \in Positions, p # <<>>, IsPrefix(p, q)
  PROVE  q # <<>> /\ q[1] = p[1]
<1>1. p \in Seq(Names) /\ q \in Seq(Names) /\ Len(p) \in Nat \ {0} /\ Len(q) \in Nat
  BY LenProperties, EmptySeq DEF Positions
<1>2. Len(p) <= Len(q) /\ \A n \in 1..Len(p) : p[n] = q[n]
  BY <1>1, PrefixPoints
<1>3. Len(q) # 0 /\ 1 \in 1..Len(p)
  BY <1>1, <1>2
<1> QED
  BY <1>2, <1>3, EmptySeq

\* Members of other names are added to a dump.
LEMMA AddedBeside ==
  ASSUME NEW merged, NEW added, DOMAIN merged \subseteq Positions \ {<<>>},
         DOMAIN added \subseteq Positions \ {<<>>},
         \A p \in DOMAIN added, q \in DOMAIN merged : p[1] # q[1]
  PROVE  /\ DOMAIN assign(merged, added) = DOMAIN added \union DOMAIN merged
         /\ \A p \in DOMAIN added : assign(merged, added)[p] = added[p]
         /\ \A q \in DOMAIN merged : assign(merged, added)[q] = merged[q] /\ q \notin DOMAIN added
<1> DEFINE kept == {q \in DOMAIN merged : \A p \in DOMAIN added : ~Comparable(Cut(p, 1), Cut(q, 1))}
<1>1. kept = DOMAIN merged
  BY FirstNames
<1>2. assign(merged, added) = Over(added, [q \in kept |-> merged[q]])
  BY DEF assign, Merge
<1> HIDE DEF kept
<1> QED
  BY <1>1, <1>2 DEF Over

\* A key answered by the dump of two nested dictionaries.
LEMMA NestedDump ==
  ASSUME NEW lower, NEW upper, IsObject(lower), IsObject(upper),
         \A p \in DOMAIN lower \union DOMAIN upper : \A n \in 1..Len(p) : Len(p[n]) = 1,
         NEW k \in Names \ {<<>>}
  PROVE  LET here  == Hit(getByPath(upper, k))
             there == Hit(getByPath(lower, k))
         IN  Agrees(IF here # Undefined THEN here ELSE there,
                    Hit(getByPath(mergeTranslationLayers(lower, upper), k)))
<1> DEFINE merged == mergeLayerTrees(lower, upper)
           added  == collectShadowedLeaves(lower, upper)
           hidden == Shadowed(lower, upper)
           dump   == mergeTranslationLayers(lower, upper)
           here   == Hit(getByPath(upper, k))
           there  == Hit(getByPath(lower, k))
           place  == Nested(k)
<1>1. /\ DOMAIN lower \subseteq Positions \ {<<>>} /\ DOMAIN upper \subseteq Positions \ {<<>>}
      /\ DOMAIN merged \subseteq DOMAIN lower \union DOMAIN upper
      /\ hidden \subseteq DOMAIN lower
  BY MergedPositions DEF IsObject, WellFormed, Shadowed
<1>2. \A p \in DOMAIN lower \union DOMAIN upper : Len(p) > 0 /\ Len(p[1]) = 1
  <2>1. \A p \in DOMAIN lower \union DOMAIN upper : Len(p) \in Nat /\ Len(p) # 0
    BY <1>1, LenProperties, EmptySeq DEF Positions
  <2> QED
    BY <2>1
<1>3. \A q \in hidden :
        /\ FlattenSeq(q) \in Names \ {<<>>}
        /\ Len(FlattenSeq(q)) # 1
        /\ Nested(FlattenSeq(q)) = q
  <2> SUFFICES ASSUME NEW q \in hidden
               PROVE  /\ FlattenSeq(q) \in Names \ {<<>>}
                      /\ Len(FlattenSeq(q)) # 1
                      /\ Nested(FlattenSeq(q)) = q
    OBVIOUS
  <2>1. q \in DOMAIN lower /\ q \in Positions /\ q # <<>> /\ \E n \in 1..(Len(q) - 1) : TRUE
    BY <1>1 DEF Shadowed
  <2>2. Len(q) \in Nat
    BY <2>1, LenProperties DEF Positions
  <2>3. Len(q) > 1
    BY <2>1, <2>2
  <2>4. \A n \in 1..Len(q) : Len(q[n]) = 1
    BY <2>1
  <2> QED
    BY <2>1, <2>3, <2>4, FlattenSegments
<1>4. /\ \A q \in hidden : << FlattenSeq(q) >> \in DOMAIN added
      /\ \A p \in DOMAIN added :
           \E q \in hidden : /\ p = << FlattenSeq(q) >>
                             /\ added[p] = lower[q]
  BY ShadowedNames
<1>5. dump = assign(merged, added)
  BY DEF mergeTranslationLayers
<1>6. k \in Seq(Segments) /\ Len(k) \in Nat \ {0} /\ place \in Positions /\ place # <<>>
      /\ Len(place[1]) = 1
  <2>1. /\ k \in Seq(Segments) /\ Len(k) \in Nat \ {0} /\ place \in Positions /\ place # <<>>
        /\ \A n \in 1..Len(k) : place[n] = << k[n] >>
    BY NestedPoints
  <2>2. place[1] = << k[1] >>
    BY <2>1
  <2> QED
    BY <2>1, <2>2
<1>7. /\ ~hasFlat(lower, k) \/ Len(k) = 1
      /\ ~hasFlat(upper, k) \/ Len(k) = 1
  BY <1>2 DEF hasFlat
<1>8. getByPath(lower, k) = getAt(lower, place) /\ getByPath(upper, k) = getAt(upper, place)
  BY <1>7, NestedLookup
<1> HIDE DEF merged, added, dump, place, hidden
<1>9. \A p \in DOMAIN added :
        /\ p \in Positions /\ p # <<>> /\ Len(p) = 1 /\ Len(p[1]) # 1 /\ p[1] \in Names
  <2> SUFFICES ASSUME NEW q \in hidden
               PROVE  LET p == << FlattenSeq(q) >>
                      IN  /\ p \in Positions /\ p # <<>> /\ Len(p) = 1 /\ Len(p[1]) # 1
                          /\ p[1] \in Names
    BY <1>4
  <2> DEFINE w == FlattenSeq(q)
  <2>1. w \in Names /\ Len(w) # 1
    BY <1>3
  <2> HIDE DEF w
  <2>2. /\ << w >> \in Seq(Names) /\ << w >> # <<>> /\ Len(<< w >>) = 1 /\ << w >>[1] = w
    BY <2>1
  <2> QED
    BY <2>1, <2>2 DEF w, Positions
<1>10. /\ DOMAIN dump = DOMAIN added \union DOMAIN merged
       /\ \A p \in DOMAIN added : dump[p] = added[p]
       /\ \A q \in DOMAIN merged : dump[q] = merged[q] /\ q \notin DOMAIN added
  <2>1. \A p \in DOMAIN added, q \in DOMAIN merged : p[1] # q[1]
    <3> SUFFICES ASSUME NEW p \in DOMAIN added, NEW q \in DOMAIN merged, p[1] = q[1]
                 PROVE  FALSE
      OBVIOUS
    <3>1. Len(p[1]) # 1 /\ Len(q[1]) = 1
      BY <1>1, <1>2, <1>9
    <3> QED
      BY <3>1
  <2>2. /\ DOMAIN merged \subseteq Positions \ {<<>>}
        /\ DOMAIN added \subseteq Positions \ {<<>>}
    BY <1>1, <1>9
  <2>3. /\ DOMAIN assign(merged, added) = DOMAIN added \union DOMAIN merged
        /\ \A p \in DOMAIN added : assign(merged, added)[p] = added[p]
        /\ \A q \in DOMAIN merged : assign(merged, added)[q] = merged[q] /\ q \notin DOMAIN added
    BY <2>1, <2>2, AddedBeside
  <2> QED
    BY <1>5, <2>3
<1>11. DOMAIN dump \subseteq Positions \ {<<>>}
  BY <1>1, <1>9, <1>10
\* A dotted name the dump added: the lookups fall through to that leaf.
<1>12. CASE << k >> \in DOMAIN added
  <2>1. PICK q \in hidden : << k >> = << FlattenSeq(q) >> /\ added[<< k >>] = lower[q]
    BY <1>4, <1>12
  <2>2. q = place /\ Len(k) # 1
    <3>1. FlattenSeq(q) = k
      BY <2>1
    <3> QED
      BY <1>3, <3>1 DEF place
  <2>3. getAt(upper, place) = Undefined /\ getAt(lower, place) = Leaf(lower[place])
    BY <2>2, ShadowedAnswer DEF hidden
  <2> DEFINE name == << k >>
  <2>4. name \in Positions /\ Len(name) = 1 /\ name[1] = k /\ name # <<>> /\ name \in DOMAIN dump
    BY <1>9, <1>10, <1>12
  <2>5. dump[name] = lower[place]
    BY <1>10, <1>12, <2>1, <2>2
  <2>a. hasFlat(dump, k)
    BY <2>4 DEF hasFlat
  <2>b. getByPath(dump, k) = getAt(dump, name)
    BY <2>a DEF getByPath, Place
  <2> HIDE DEF name
  <2>6. Below(dump, name) = {name}
    <3>1. \A r \in Below(dump, name) : r = name
      <4> SUFFICES ASSUME NEW r \in Below(dump, name) PROVE r = name
        OBVIOUS
      <4>1. r \in DOMAIN dump /\ r \in Positions /\ IsPrefix(name, r) /\ r[1] = k
        BY <1>11, <2>4, FirstOfPrefix DEF Below
      <4>2. r \in DOMAIN added
        <5>1. r \in DOMAIN merged => Len(r[1]) = 1
          BY <1>1, <1>2
        <5>2. Len(r[1]) # 1
          BY <2>2, <4>1
        <5> QED
          BY <1>10, <4>1, <5>1, <5>2
      <4>3. r \in Seq(Names) /\ Len(r) = 1 /\ name \in Seq(Names)
        BY <1>9, <2>4, <4>1, <4>2 DEF Positions
      <4> QED
        BY <2>4, <4>1, <4>3, SeqEqual
    <3>2. name \in Below(dump, name)
      BY <2>4, PrefixItself DEF Below
    <3> QED
      BY <3>1, <3>2
  <2>7. getAt(dump, name) = Leaf(lower[place])
    BY <2>4, <2>5, <2>6, LeafBelow
  <2>8. Hit(Undefined) = Undefined
    BY DEF Hit
  <2> QED
    BY <1>8, <2>3, <2>7, <2>8, <2>b DEF Agrees, dump
<1>13. CASE << k >> \notin DOMAIN added
  <2>1. place \notin hidden
    <3> SUFFICES ASSUME place \in hidden PROVE FALSE
      OBVIOUS
    <3>1. Nested(FlattenSeq(place)) = Nested(k) /\ FlattenSeq(place) \in Names \ {<<>>}
      BY <1>3 DEF place
    <3>2. FlattenSeq(place) = k
      BY <3>1, NestedInjective
    <3> QED
      BY <1>4, <1>13, <3>2
  <2>2. hasFlat(dump, k) => Len(k) = 1
    <3> SUFFICES ASSUME NEW p \in DOMAIN dump, p[1] = k PROVE Len(k) = 1
      BY DEF hasFlat
    <3>1. CASE p \in DOMAIN merged
      BY <1>1, <1>2, <3>1
    <3>2. CASE p \in DOMAIN added
      <4>1. PICK q \in hidden : p = << FlattenSeq(q) >>
        BY <1>4, <3>2
      <4>2. p[1] = FlattenSeq(q)
        BY <4>1
      <4> QED
        BY <1>13, <3>2, <4>1, <4>2
    <3> QED
      BY <1>10, <3>1, <3>2
  <2>3. getByPath(dump, k) = getAt(dump, place)
    BY <2>2, NestedLookup DEF place
  <2>4. Below(dump, place) = Below(merged, place)
    <3>1. \A r \in DOMAIN added : ~IsPrefix(place, r)
      <4> SUFFICES ASSUME NEW r \in DOMAIN added, IsPrefix(place, r) PROVE FALSE
        OBVIOUS
      <4>1. r \in Positions /\ Len(r[1]) # 1
        BY <1>9
      <4>2. r[1] = place[1]
        BY <1>6, <4>1, FirstOfPrefix
      <4> QED
        BY <1>6, <4>1, <4>2
    <3> QED
      BY <1>10, <3>1 DEF Below
  <2>5. \A q \in Below(dump, place) : dump[q] = merged[q]
    BY <1>10, <2>4 DEF Below
  <2>6. getAt(dump, place) = getAt(merged, place)
    BY <1>6, <1>11, <2>4, <2>5, SameBelow
  <2>7. LET upon == Hit(getAt(upper, place))
            down == Hit(getAt(lower, place))
        IN  Agrees(IF upon # Undefined THEN upon ELSE down, Hit(getAt(merged, place)))
    BY <1>6, <2>1, LayersAgree DEF merged, hidden
  <2> QED
    BY <1>8, <2>3, <2>6, <2>7 DEF dump
<1> QED
  BY <1>12, <1>13

\* A key answered by the dump of two flat dictionaries.
LEMMA FlatDump ==
  ASSUME NEW lower, NEW upper, IsObject(lower), IsObject(upper),
         \A p \in DOMAIN lower \union DOMAIN upper : Len(p) = 1,
         NEW k \in Names \ {<<>>}
  PROVE  LET here  == Hit(getByPath(upper, k))
             there == Hit(getByPath(lower, k))
         IN  Agrees(IF here # Undefined THEN here ELSE there,
                    Hit(getByPath(mergeTranslationLayers(lower, upper), k)))
<1> DEFINE merged == mergeLayerTrees(lower, upper)
           added  == collectShadowedLeaves(lower, upper)
           dump   == mergeTranslationLayers(lower, upper)
           name   == << k >>
<1>1. /\ DOMAIN lower \subseteq Positions \ {<<>>} /\ DOMAIN upper \subseteq Positions \ {<<>>}
      /\ DOMAIN merged \subseteq DOMAIN lower \union DOMAIN upper
  BY MergedPositions DEF IsObject, WellFormed
<1>2. Shadowed(lower, upper) = {}
  <2> SUFFICES ASSUME NEW q \in Shadowed(lower, upper) PROVE FALSE
    OBVIOUS
  <2>1. q \in DOMAIN lower /\ \E n \in 1..(Len(q) - 1) : TRUE
    BY DEF Shadowed
  <2>2. Len(q) = 1
    BY <2>1
  <2> QED
    BY <2>1, <2>2
<1>3. DOMAIN added = {}
  BY <1>2, ShadowedNames
<1>4. dump = assign(merged, added)
  BY DEF mergeTranslationLayers
<1> HIDE DEF merged, added, dump
<1>5. /\ DOMAIN dump = DOMAIN merged /\ \A q \in DOMAIN merged : dump[q] = merged[q]
  <2>1. /\ DOMAIN merged \subseteq Positions \ {<<>>}
        /\ DOMAIN added \subseteq Positions \ {<<>>}
        /\ \A p \in DOMAIN added, q \in DOMAIN merged : p[1] # q[1]
    BY <1>1, <1>3
  <2>2. /\ DOMAIN assign(merged, added) = DOMAIN added \union DOMAIN merged
        /\ \A p \in DOMAIN added : assign(merged, added)[p] = added[p]
        /\ \A q \in DOMAIN merged : assign(merged, added)[q] = merged[q] /\ q \notin DOMAIN added
    BY <2>1, AddedBeside
  <2> QED
    BY <1>3, <1>4, <2>2
<1>6. name \in Positions /\ name # <<>>
  BY DEF Positions
<1> HIDE DEF name
<1>7. /\ getByPath(lower, k) = getAt(lower, name)
      /\ getByPath(upper, k) = getAt(upper, name)
      /\ getByPath(dump, k) = getAt(dump, name)
  <2>1. /\ DOMAIN lower \subseteq Positions /\ DOMAIN upper \subseteq Positions
        /\ DOMAIN dump \subseteq Positions /\ \A p \in DOMAIN dump : Len(p) = 1
        /\ \A p \in DOMAIN lower : Len(p) = 1
        /\ \A p \in DOMAIN upper : Len(p) = 1
    BY <1>1, <1>5
  <2> QED
    BY <2>1, FlatLookup DEF name
<1>8. getAt(dump, name) = getAt(merged, name)
  <2>1. Below(dump, name) = Below(merged, name) /\ \A q \in Below(dump, name) : dump[q] = merged[q]
    BY <1>5 DEF Below
  <2>2. DOMAIN dump \subseteq Positions
    BY <1>1, <1>5
  <2> QED
    BY <1>6, <2>1, <2>2, SameBelow
<1>9. LET upon == Hit(getAt(upper, name))
          down == Hit(getAt(lower, name))
      IN  Agrees(IF upon # Undefined THEN upon ELSE down, Hit(getAt(merged, name)))
  BY <1>2, <1>6, LayersAgree DEF merged
<1> QED
  BY <1>7, <1>8, <1>9 DEF dump

\* Where the two dictionaries are written in one shape, the dump an
\* application reads answers each key as t() does (base.ts:133).
THEOREM DumpsAnswerLookups == Spec => []DumpAnswersLookups
<1>1. OwnInv /\ alive \subseteq Instances => DumpAnswersLookups
  <2> SUFFICES ASSUME OwnInv, alive \subseteq Instances, NEW i \in alive, NEW k \in Keys,
                      SameShape(getCache(i, <<active[i].fallback, active[i].route>>),
                                getCache(i, <<active[i].locale, active[i].route>>))
               PROVE  Agrees(resolveLookup(i, k), resolveTranslation(resolveTranslations(i), k))
    BY DEF DumpAnswersLookups, Agrees
  <2> DEFINE e == <<active[i].locale, active[i].route>>
             f == <<active[i].fallback, active[i].route>>
             upper == getCache(i, e)
             lower == getCache(i, f)
             here  == Hit(getByPath(upper, k))
             there == Hit(getByPath(lower, k))
  <2>1. /\ i \in Instances /\ k \in Names \ {<<>>}
        /\ e \in Entries /\ f \in Entries
    BY MessageStoreAssumption DEF MessageStoreAssumption, OwnInv, Entries
  <2>2. \A g \in Entries : IsObject(getCache(i, g))
    <3> SUFFICES ASSUME NEW g \in Entries PROVE IsObject(getCache(i, g))
      OBVIOUS
    <3>1. entry[i][g] = None \/ entry[i][g] \in Refs
      BY <2>1 DEF OwnInv, OwnMap
    <3> QED
      BY <3>1, EmptyIsObject DEF OwnInv, IsHeap, getCache
  <2>3. IsObject(upper) /\ IsObject(lower)
    BY <2>1, <2>2
  <2>4. resolveLookup(i, k) = IF here # Undefined THEN here ELSE there
    BY ResolvesByPath DEF resolveLookup
  <2>5. resolveTranslation(resolveTranslations(i), k) = Hit(getByPath(resolveTranslations(i), k))
    BY ResolvesByPath
  <2>6. SameShape(lower, upper)
    OBVIOUS
  <2>7. CASE e = f \/ entry[i][f] = None
    <3>1. resolveTranslations(i) = upper
      BY <2>7 DEF resolveTranslations
    <3>2. there = here \/ there = Undefined
      <4>1. CASE e = f
        BY <4>1
      <4>2. CASE entry[i][f] = None
        <5>1. lower = Undefined
          BY <4>2 DEF getCache
        <5>2. Below(Undefined, Place(Undefined, k)) = {}
          BY DEF Below, Undefined
        <5>3. getByPath(Undefined, k) = Undefined
          BY <5>2, NothingBelow DEF getByPath
        <5>4. Hit(Undefined) = Undefined
          BY DEF Hit
        <5> QED
          BY <5>1, <5>3, <5>4
      <4> QED
        BY <2>7, <4>1, <4>2
    <3> QED
      BY <2>4, <2>5, <3>1, <3>2 DEF Agrees
  <2>8. CASE ~(e = f \/ entry[i][f] = None)
    <3>1. resolveTranslations(i) = mergeTranslationLayers(lower, upper)
      BY <2>8 DEF resolveTranslations
    <3> HIDE DEF upper, lower
    <3>2. Agrees(IF here # Undefined THEN here ELSE there,
                 Hit(getByPath(mergeTranslationLayers(lower, upper), k)))
      <4>1. CASE \A p \in DOMAIN lower \union DOMAIN upper : \A n \in 1..Len(p) : Len(p[n]) = 1
        BY <2>1, <2>3, <4>1, NestedDump
      <4>2. CASE \A p \in DOMAIN lower \union DOMAIN upper : Len(p) = 1
        BY <2>1, <2>3, <4>2, FlatDump
      <4> QED
        BY <2>6, <4>1, <4>2 DEF SameShape
    <3> QED
      BY <2>4, <2>5, <3>1, <3>2
  <2> QED
    BY <2>7, <2>8
<1> QED
  BY <1>1, OwnInvariant, AliveInvariant, PTL

=============================================================================
