------------------------ MODULE MCTranslationLoader ------------------------
(***************************************************************************)
(* Instances of TranslationLoader.  Three contexts: two routes of one      *)
(* locale and one of another, so that a switch may keep or change the      *)
(* locale and a Map of two entries has to evict; two contexts where the    *)
(* question does not need more.  Both leaves come from the locale files;   *)
(* a patch overrides the title and does not mention the body.              *)
(***************************************************************************)
EXTENDS TranslationLoader

EnHome  == <<"en", "home">>
EnAbout == <<"en", "about">>
DeHome  == <<"de", "home">>

ThreeContexts == {EnHome, EnAbout, DeHome}
TwoContexts   == {EnHome, EnAbout}

AllLeaves == [c \in Contexts |-> Leaves]

OnePayload  == {<<EnAbout, DeHome>>}
NoPayload   == {}

=============================================================================
