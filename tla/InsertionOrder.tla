--------------------------- MODULE InsertionOrder ---------------------------
(***************************************************************************)
(* The key order of a JavaScript Map.  A Map enumerates its keys in the    *)
(* order of their first insertion: writing a key that is already there     *)
(* leaves it where it was, deleting and writing it again moves it to the   *)
(* end.  Both caches of the runtime (the LRU CacheControl and the view     *)
(* layer's chunk Map) evict from the front of that order.  The order is a  *)
(* sequence without repetitions.                                           *)
(***************************************************************************)
EXTENDS Naturals, SequencesExt

Position(s, k) == CHOOSE i \in DOMAIN s : s[i] = k

\* The elements of s at the positions I, in their order: position i is the
\* n-th of I when I has n elements up to i.  (SelectSeq would say the same by a
\* recursion, of which a proof could not speak.)
Picked(s, I) ==
  [n \in 1..Cardinality(I) |->
     s[CHOOSE i \in I : Cardinality({j \in I : j <= i}) = n]]

\* The order after Map.delete(k).
Without(s, k) == IF k \in ToSet(s) THEN RemoveAt(s, Position(s, k)) ELSE s

\* The order after Map.set(k, _).
With(s, k) == IF k \in ToSet(s) THEN s ELSE Append(s, k)

\* The order after Map.delete(k); Map.set(k, _).
Renewed(s, k) == Append(Without(s, k), k)

=============================================================================
