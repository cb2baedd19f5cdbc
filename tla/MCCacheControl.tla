--------------------------- MODULE MCCacheControl ---------------------------
(***************************************************************************)
(* Three keys against limits of one and two, so that entries are evicted,  *)
(* and a ttl of one tick against a clock of four, so that entries expire,  *)
(* are renewed and expire again.  configure() may switch between all of    *)
(* these at any time.  Keys and values are interchangeable.                *)
(***************************************************************************)
EXTENDS CacheControl, TLC

Interchangeable == Permutations(Keys) \union Permutations(Vals)

=============================================================================
