--------------------------- MODULE MCServerLoader ---------------------------
(***************************************************************************)
(* One locale with two pages and an alias, so that a root file feeds two   *)
(* pages of which one may fail; or two locales, one with a fallback.       *)
(***************************************************************************)
EXTENDS ServerLoader, TLC

OneLocale == {"en"}
TwoLocales == {"en", "de"}

OneAlias == "info" :> "about"
NoAlias  == <<>>

Alone        == [l \in Locales |-> {l}]
EnglishFirst == [l \in Locales |-> {"en", l}]

Interchangeable == Permutations(Requests)

=============================================================================
