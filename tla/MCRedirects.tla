----------------------------- MODULE MCRedirects -----------------------------
(***************************************************************************)
(* The instance of Redirects: three locales, "en" the default, the index   *)
(* page, a page "about" that the options of the routes vary and a page     *)
(* "help".  Slugs adds a custom path per locale; one that the options do   *)
(* not use is a path nobody serves.                                        *)
(***************************************************************************)
EXTENDS PublishedPaths

Enabled == <<"en", "de", "fr">>

PathsKnown == {"index", "about", "help", "about-en", "about-de", "about-fr"}

NoCustom == [p \in Pages |-> [l \in Locales |-> NoSlug]]

Translated == {<<"en", "about-en">>, <<"de", "about-de">>, <<"fr", "about-fr">>}

\* No custom path of "about", one in the locales of `in`.
CustomIn(in) ==
  [NoCustom EXCEPT !["about"] =
     [l \in Locales |-> IF l \notin in THEN NoSlug
                        ELSE CHOOSE s \in Slugs : <<l, s>> \in Translated]]

EveryLocale == [p \in Pages |-> {}]
OnlyIn(ls)  == [EveryLocale EXCEPT !["about"] = ls]

\* What the options of the routes are: none, a custom path in one locale, in
\* two or in all, routeLocales with and without them, one page without
\* localization.
RouteOptions ==
  {[off |-> {},       custom |-> NoCustom,               only |-> EveryLocale],
   [off |-> {"help"}, custom |-> CustomIn({"de"}),       only |-> EveryLocale],
   [off |-> {"help"}, custom |-> CustomIn({"en", "de"}), only |-> EveryLocale],
   [off |-> {},       custom |-> CustomIn(Locales),      only |-> EveryLocale],
   [off |-> {"help"}, custom |-> NoCustom,               only |-> OnlyIn({"en", "de"})],
   [off |-> {},       custom |-> CustomIn({"de"}),       only |-> OnlyIn({"de", "fr"})]}

\* What the options of the redirects are: without autoDetectLanguage the header
\* is not read, and autoDetectPath may name any path, a custom one too.
RedirectOptions ==
  {[redirects |-> x[1], autoDetectPath |-> x[2], exactPath |-> x[3], localeCookie |-> x[4],
    autoDetectLanguage |-> x[5]] :
     x \in {<<TRUE,  "exact",     "index",    TRUE,  TRUE>>,
            <<TRUE,  "exact",     "about-en", TRUE,  TRUE>>,
            <<TRUE,  "exact",     "index",    TRUE,  FALSE>>,
            <<TRUE,  "exact",     "index",    FALSE, TRUE>>,
            <<TRUE,  "no_prefix", "index",    TRUE,  TRUE>>,
            <<TRUE,  "*",         "index",    TRUE,  FALSE>>,
            <<FALSE, "exact",     "index",    TRUE,  TRUE>>,
            <<FALSE, "exact",     "index",    TRUE,  FALSE>>}}

\* Of the redirect options, those the strategy reads.
Relevant(s, d) ==
  CASE s \in {"prefix", "prefix_except_default"} -> TRUE
    [] s = "prefix_and_default" -> d.redirects /\ d.autoDetectPath \in {"exact", "*"}
    [] s = "no_prefix" -> d.redirects /\ d.autoDetectPath = "exact" /\ d.localeCookie

SmallConfigs ==
  {[strategy |-> s, off |-> r.off, custom |-> r.custom, only |-> r.only,
    redirects |-> d.redirects, autoDetectPath |-> d.autoDetectPath,
    exactPath |-> d.exactPath, autoDetectLanguage |-> d.autoDetectLanguage,
    localeCookie |-> d.localeCookie] :
     <<s, r, d>> \in {x \in Strategies \X RouteOptions \X RedirectOptions :
                       Relevant(x[1], x[3])}}
=============================================================================
