---------------------------- MODULE PathStrategy ----------------------------
(***************************************************************************)
(* What the running application asks its path strategy                     *)
(* (packages/path-strategy/src): the locale of a route, whether a path is  *)
(* a 404 or redirected, the link to a page in a locale and the way to      *)
(* switch the locale of a page, for the four strategies, on the routes the *)
(* build generated.                                                        *)
(*                                                                         *)
(* baseUrl, hashMode and nested route names are left out, and so are the   *)
(* query and the hash, which every operation carries along.                *)
(***************************************************************************)
EXTENDS RouteGeneration

\* The first alternative that applies.
first ?? second == IF first = NoPath THEN second ELSE first

When(condition, path) == IF condition THEN path ELSE NoPath

-----------------------------------------------------------------------------
\* Only path keys are looked up here: a custom path has no entry of its own.
isUnlocalizedRoute(o, rest) == rest \in o.off

\* Mutant of resolvePathForLocale: custom paths of the target are not read.
PathUnresolved(o, rest, l) == rest

resolvePathForLocale(o, rest, l) == IF rest \in Pages THEN restFor(o, rest, l) ELSE rest

\* The locale of a route, given the remembered one; :locale is the first segment.
getCurrentLocale(o, path, override) ==
  LET remembered == IF override # NoLocale THEN override ELSE DefaultLocale
  IN  CASE o.strategy = "no_prefix" -> remembered
        [] o.strategy # "no_prefix" /\ path.locale # NoLocale -> path.locale
        [] o.strategy = "prefix_except_default" /\ path.locale = NoLocale -> DefaultLocale
        [] o.strategy \in {"prefix", "prefix_and_default"} /\ path.locale = NoLocale -> remembered

\* Mutant of shouldReturn404: a page without routeLocales is allowed nowhere.
RestrictedWithoutList(o, path) ==
  /\ o.strategy # "no_prefix"
  /\ path.locale # NoLocale
  /\ \/ isUnlocalizedRoute(o, path.rest)
     \/ /\ path.rest \in Pages
        /\ path.locale \notin o.only[path.rest]
     \/ /\ o.strategy = "prefix_except_default"
        /\ path = Prefixed(DefaultLocale, Index)

\* Whether the server answers a path with 404 before it looks for a route.
shouldReturn404(o, path) ==
  /\ o.strategy # "no_prefix"
  /\ path.locale # NoLocale
  /\ \/ isUnlocalizedRoute(o, path.rest)
     \/ /\ path.rest \in Pages
        /\ o.only[path.rest] # {}
        /\ path.locale \notin o.only[path.rest]
     \/ /\ o.strategy = "prefix_except_default"
        /\ path = Prefixed(DefaultLocale, Index)

shouldHavePrefix(o, l) ==
  CASE o.strategy = "no_prefix" -> FALSE
    [] o.strategy = "prefix_except_default" -> l # DefaultLocale
    [] o.strategy \in {"prefix", "prefix_and_default"} -> TRUE

buildLocalizedPath(o, rest, l) ==
  IF shouldHavePrefix(o, l) THEN Prefixed(l, rest) ELSE Bare(rest)

\* Where a path without a locale is redirected when `preferred` is the locale.
getClientRedirect(o, path, preferred) ==
  LET target == buildLocalizedPath(o, resolvePathForLocale(o, path.rest, preferred), preferred)
  IN  When(/\ o.strategy \in {"prefix", "prefix_except_default"}
           /\ ~isUnlocalizedRoute(o, path.rest)
           /\ path.locale = NoLocale
           /\ target # path,
           target)

-----------------------------------------------------------------------------
\* The base of a route name: without "localized-" and, of all the locales it may
\* end in, without "-from" alone.  "localized-p-l" of another locale keeps its l.
getBaseRouteName(name, from) ==
  CASE Len(name) = 1 -> name
    [] Len(name) = 2 -> <<name[2]>>
    [] Len(name) = 3 -> IF name[3] = from THEN <<name[2]>> ELSE <<name[2], name[3]>>

\* "localized-" put before a base.
localized(base) ==
  IF Len(base) = 1 THEN <<"localized", base[1]>> ELSE <<"localized", base[1], base[2]>>

\* The router's name for a base in locale l: "localized-p-l" if there is such a
\* route, "localized-p" otherwise.  No route ends in two locales.
findLocalizedRouteName(o, base, l) ==
  IF Len(base) = 1 /\ hasRoute(o, <<"localized", base[1], l>>)
  THEN <<"localized", base[1], l>> ELSE localized(base)

\* Resolves a base by that name from `here`: only the name without l is given
\* its param.
tryResolveByLocalizedName(o, base, l, here) ==
  LET name == findLocalizedRouteName(o, base, l)
  IN  resolve(o, name, IF name = localized(base) THEN l ELSE NoLocale, here)

\* By the page's own name, which no route with a prefix has.
tryResolveByName(o, base) == resolve(o, base, NoLocale, Bare(base[1]))

\* The name switchLocaleRoute looks for in the target locale.
switchLocaleName(o, base, to) ==
  LET found == findLocalizedRouteName(o, base, to)
  IN  IF o.strategy = "prefix_except_default"
      THEN IF shouldHavePrefix(o, to) THEN found ELSE base
      ELSE IF hasRoute(o, found) THEN found ELSE base

\* switchLocaleRoute of "prefix", "no_prefix" and "prefix_and_default": NoPath
\* stands for the current route or a name the router cannot resolve.
defaultSwitchLocaleRoute(o, base, here, to) ==
  IF hasRoute(o, findLocalizedRouteName(o, base, to))
  THEN tryResolveByLocalizedName(o, base, to, here)
  ELSE tryResolveByName(o, base)

\* The same under "prefix_except_default", which gives every name its param and
\* builds a path for a page without a route in the target locale.
exceptDefaultSwitchLocaleRoute(o, base, here, to) ==
  LET name == switchLocaleName(o, base, to)
  IN  IF hasRoute(o, name) THEN resolve(o, name, to, here)
      ELSE buildLocalizedPath(o, here.rest, to)

\* Where switching to a locale leads from a route of that base at `here`.
switchLocaleRoute(o, base, here, to) ==
  IF o.strategy = "prefix_except_default" THEN exceptDefaultSwitchLocaleRoute(o, base, here, to)
  ELSE defaultSwitchLocaleRoute(o, base, here, to)

-----------------------------------------------------------------------------
\* localeRoute of a path: the custom path of the target locale, with its prefix.
localeRouteByPath(o, p, l) == buildLocalizedPath(o, resolvePathForLocale(o, p, l), l)

customRoute(o, p, l) == When(isCustom(o, p, l), buildLocalizedPath(o, restFor(o, p, l), l))

\* The path of the route named p, with the locale's prefix; the index page
\* falls through to the next alternative.
sameRoute(o, p, l) ==
  LET at == tryResolveByName(o, <<p>>)
  IN  IF at = NoPath \/ p = Index THEN NoPath ELSE buildLocalizedPath(o, at.rest, l)

\* localeRoute by name under "prefix" and "no_prefix".
defaultResolveLocaleRoute(o, p, l, here) ==
  When(p \in o.off, Bare(p))
  ?? tryResolveByLocalizedName(o, <<p>>, l, here)
  ?? customRoute(o, p, l)
  ?? sameRoute(o, p, l)
  ?? buildLocalizedPath(o, p, l)

\* Whatever a name resolves to, the link gets the target's prefix.
rewriteWithLocalePrefix(path, l) == IF path = NoPath THEN NoPath ELSE Prefixed(l, path.rest)

\* Under "prefix_and_default" every link carries a prefix.
andDefaultResolveLocaleRoute(o, p, l, here) ==
  When(p \in o.off, Bare(p))
  ?? customRoute(o, p, l)
  ?? sameRoute(o, p, l)
  ?? rewriteWithLocalePrefix(tryResolveByLocalizedName(o, <<p>>, l, here), l)
  ?? Prefixed(l, p)

\* Under "prefix_except_default" the path of the default locale's route is
\* tried before the name of the target's.
exceptDefaultResolveLocaleRoute(o, p, l, here) ==
  When(p \in o.off, Bare(p))
  ?? customRoute(o, p, l)
  ?? sameRoute(o, p, l)
  ?? When(shouldHavePrefix(o, l), tryResolveByLocalizedName(o, <<p>>, l, here))
  ?? buildLocalizedPath(o, p, l)

\* The link to page p in locale l, by the name of the page, from `here`.
localeRouteByName(o, p, l, here) ==
  CASE o.strategy = "prefix_except_default" -> exceptDefaultResolveLocaleRoute(o, p, l, here)
    [] o.strategy = "prefix_and_default"    -> andDefaultResolveLocaleRoute(o, p, l, here)
    [] o.strategy \in {"prefix", "no_prefix"} -> defaultResolveLocaleRoute(o, p, l, here)
=============================================================================
