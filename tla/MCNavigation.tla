---------------------------- MODULE MCNavigation ----------------------------
(***************************************************************************)
(* Two locales and two pages, each page with a string of its own next to   *)
(* the shared one.                                                         *)
(***************************************************************************)
EXTENDS Navigation

TwoLocales == {"en", "de"}
TwoPages   == {"home", "about"}
AllContexts == TwoLocales \X TwoPages

PageLeaves == [c \in AllContexts |-> {"shared", c[2]}]

=============================================================================
