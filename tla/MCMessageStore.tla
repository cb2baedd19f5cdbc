---------------------------- MODULE MCMessageStore ----------------------------
(* Two locales, two routes; dictionaries with sections two and three deep, *)
(* flat ones, leaves where others have sections, and null.                 *)
EXTENDS MessageStore, TLC

CONSTANTS o1, o2, o3, r1

a   == <<"a">>
b   == <<"b">>
c   == <<"c">>
d   == <<"d">>
ab  == <<"a", "b">>

MCKeys   == {a, ab, <<"a", "d">>, <<"a", "b", "c">>}
MCValues == {Leaf("set"), <<b>> :> "inner"}

\* { a: { b: { c: 'deep' }, d: null } }, { a: 'leaf' }, { 'a.b': 'flat' }
MCContent == o1 :> (<<a, b, c>> :> "deep" @@ <<a, d>> :> Nil)
          @@ o2 :> (<<a>> :> "leaf")
          @@ o3 :> (<<ab>> :> "flat")

MCMessageSets == {[l \in {} |-> None], "en" :> o1, "en" :> o2 @@ "de" :> o1}

MCFiles == <<"en", "index">> :> (<<a, b, c>> :> "root" @@ <<d>> :> "root")
        @@ <<"en", "page">> :> (<<a, d>> :> "page")
        @@ <<"de", "index">> :> (<<d>> :> "Wurzel")
        @@ <<"de", "page">> :> (<<a>> :> "page")
=============================================================================
