--------------------------- MODULE TranslationTrees ---------------------------
(***************************************************************************)
(* Translation dictionaries as trees: packages/core/src/helpers.ts and the *)
(* two-level merge of packages/utils/src/deep-merge.ts.                    *)
(*                                                                         *)
(* A key is a sequence of segments, `a.b` is <<"a", "b">>.  An object of a *)
(* dictionary names its members, and a name may hold several segments, for *)
(* a flat dictionary { 'a.b': x } names its member <<"a", "b">>.  A        *)
(* position is the sequence of names that leads to a leaf, and a tree is   *)
(* the function from its positions to its leaves: no position of a tree is *)
(* a prefix of another.  A leaf alone is the tree with the position <<>>,  *)
(* and the tree without positions is undefined or {}.  Arrays are leaves;  *)
(* objects without members inside a tree are left out.                     *)
(***************************************************************************)
EXTENDS Integers, SequencesExt

CONSTANTS
  Segments,  \* what keys and names are made of
  Nil        \* the leaf null

Undefined == [p \in {} |-> Nil]
Leaf(v)   == [p \in {<<>>} |-> v]

Comparable(p, q) == IsPrefix(p, q) \/ IsPrefix(q, p)

Names     == Seq(Segments)
Positions == Seq(Names)

WellFormed(tree) ==
  /\ DOMAIN tree \subseteq Positions
  /\ \A p, q \in DOMAIN tree : Comparable(p, q) => p = q

\* What an entry holds: an object, and never a leaf alone.
IsObject(tree) == WellFormed(tree) /\ <<>> \notin DOMAIN tree

\* Both trees; where they share a position, `top` has it.
Over(top, tree) ==
  [p \in DOMAIN top \union DOMAIN tree |-> IF p \in DOMAIN top THEN top[p] ELSE tree[p]]

\* The tree without what would stand at, above or below one of the positions.
Clear(tree, positions) ==
  [q \in {q \in DOMAIN tree : \A p \in positions : ~Comparable(p, q)} |-> tree[q]]

\* isPlainTranslationObject of the value at p.
isPlainObject(tree, p) == \E q \in DOMAIN tree : IsStrictPrefix(p, q)

\* The first n names of a position.
Cut(p, n) == SubSeq(p, 1, IF n < Len(p) THEN n ELSE Len(p))

-----------------------------------------------------------------------------
(* Merging *)

\* The source wins, and down to `depth` objects are merged and not replaced.
Merge(target, source, depth) ==
  Over(source,
       [q \in {q \in DOMAIN target :
                 \A p \in DOMAIN source : ~Comparable(Cut(p, depth), Cut(q, depth))}
          |-> target[q]])

assign(existing, data)                == Merge(existing, data, 1)
deepMergeTranslations(target, source) == Merge(target, source, 2)

\* Mutant of mergeLayerTrees: null is a value, as it is to a merge.
NullsWin(lower, upper) == Over(upper, Clear(lower, DOMAIN upper))

\* `upper` wins except where it holds null beside something to fall through to.
mergeLayerTrees(lower, upper) ==
  LET held == {p \in DOMAIN upper :
                 \/ upper[p] # Nil
                 \/ \E n \in 1..(Len(p) - 1) : ~isPlainObject(lower, Cut(p, n))}
  IN  Over([p \in held |-> upper[p]], Clear(lower, held))

\* Leaves of `lower` below a leaf of `upper`, as members with dotted names.
collectShadowedLeaves(lower, upper) ==
  LET hidden == {q \in DOMAIN lower : \E n \in 1..(Len(q) - 1) :
                   Cut(q, n) \in DOMAIN upper /\ upper[Cut(q, n)] # Nil}
      flat(q) == << FlattenSeq(q) >>
  IN  [p \in {flat(q) : q \in hidden} |-> lower[CHOOSE q \in hidden : flat(q) = p]]

\* Two live layers as the one tree a dump returns.
mergeTranslationLayers(lower, upper) ==
  assign(mergeLayerTrees(lower, upper), collectShadowedLeaves(lower, upper))

-----------------------------------------------------------------------------
(* Keys *)

hasFlat(tree, key) == \E p \in DOMAIN tree : Len(p) > 0 /\ p[1] = key

\* Where a tree keeps a key: a member with the dotted name comes first.
Place(tree, key) ==
  IF hasFlat(tree, key) THEN << key >> ELSE [n \in DOMAIN key |-> << key[n] >>]

\* What stands at position p: a leaf, an object, or Undefined.
getAt(tree, p) ==
  [r \in {SubSeq(q, Len(p) + 1, Len(q)) : q \in {q \in DOMAIN tree : IsPrefix(p, q)}}
     |-> tree[p \o r]]

getByPath(tree, key) == getAt(tree, Place(tree, key))

\* null counts as a miss.
resolveTranslation(tree, key) ==
  LET value == getByPath(tree, key)
  IN  IF value = Leaf(Nil) THEN Undefined ELSE value

\* `value` (a leaf or an object) placed at p, on a tree where p is free.
Plant(tree, p, value) == Over([q \in {p \o r : r \in DOMAIN value} |->
                                 value[SubSeq(q, Len(p) + 1, Len(q))]], tree)

\* Mutants of setTranslationAtKey: a dotted key always names a path, and
\* what stood in the way is not replaced.
SetNested(tree, key, value) ==
  LET p == [n \in DOMAIN key |-> << key[n] >>] IN Plant(Clear(tree, {p}), p, value)
SetBeside(tree, key, value) == Plant(tree, Place(tree, key), value)

\* The tree with `value` at the key: replaced, and never merged.
setTranslationAtKey(tree, key, value) ==
  LET p == Place(tree, key) IN Plant(Clear(tree, {p}), p, value)

=============================================================================
