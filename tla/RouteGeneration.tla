--------------------------- MODULE RouteGeneration ---------------------------
(***************************************************************************)
(* The routes the module generates at build time: the four strategies of   *)
(* packages/route-strategy/src (processPage, generateVariants,             *)
(* postProcess), resolveLocalizedPath of its route generator, and the      *)
(* table vue-router keeps of them.                                         *)
(*                                                                         *)
(* Pages are flat (no children, params or aliases) and named after their   *)
(* path; the index page is Index.  A path is what getPathWithoutLocale     *)
(* makes of it: a leading locale or none, and the rest.  A page stands for *)
(* its own path too, so that Pages \subseteq Slugs; the other slugs are    *)
(* custom paths and paths nobody serves.  A route name is a tuple: <<p>>   *)
(* is "p", <<"localized", p>> "localized-p", <<"localized", p, l>>         *)
(* "localized-p-l".                                                        *)
(*                                                                         *)
(* The options are a record that is chosen once: `off` are the pages whose *)
(* globalLocaleRoutes entry is false, custom[p][l] the custom path of p in *)
(* l, only[p] the routeLocales entry ({}: none).  Keys by path and by name *)
(* coincide for these pages, and a routeLocales list is in the order of    *)
(* the options.  customRegexMatcher and noPrefixRedirect are left out.     *)
(***************************************************************************)
EXTENDS Naturals, Sequences

CONSTANTS
  LocaleList,      \* the enabled locales, in the order of the options
  DefaultLocale,
  Pages, Index,
  Slugs,
  NoLocale, NoSlug, NoPath,
  Configs          \* the option records considered

Locales == {LocaleList[i] : i \in DOMAIN LocaleList}

Strategies == {"prefix", "prefix_except_default", "prefix_and_default", "no_prefix"}

Paths == [locale : Locales \union {NoLocale}, rest : Slugs]

Options ==
  [strategy           : Strategies,
   off                : SUBSET Pages,
   custom             : [Pages -> [Locales -> Slugs \union {NoSlug}]],
   only               : [Pages -> SUBSET Locales],
   redirects          : BOOLEAN,
   autoDetectPath     : {"exact", "no_prefix", "*"},
   exactPath          : Slugs,    \* of "exact"; Index stands for "/", the default
   autoDetectLanguage : BOOLEAN,
   localeCookie       : BOOLEAN]

\* A custom path is no other page's path, or the redirect to it would be
\* redirected again; a page is not both unlocalized and customised, and the
\* index page is neither: its key by path ("/") and by name differ.
ASSUME RouteGenerationAssumption ==
  /\ LocaleList \in Seq(Locales)
  /\ DefaultLocale \in Locales
  /\ Index \in Pages
  /\ Pages \subseteq Slugs
  /\ NoLocale \notin Locales
  /\ NoSlug \notin Slugs
  /\ NoPath \notin Paths
  /\ Configs \subseteq Options
  /\ \A o \in Configs, p \in Pages, l \in Locales :
       o.custom[p][l] \in Pages => o.custom[p][l] = p
  /\ \A o \in Configs, p \in Pages, l \in Locales :
       p \in o.off \/ p = Index => o.custom[p][l] = NoSlug
  /\ \A o \in Configs : Index \notin o.off

Bare(rest)        == [locale |-> NoLocale, rest |-> rest]
Prefixed(l, rest) == [locale |-> l, rest |-> rest]

-----------------------------------------------------------------------------
\* Locales a page exists in.
getAllowedLocales(o, p) == IF o.only[p] = {} THEN Locales ELSE o.only[p]

isCustom(o, p, l) == o.custom[p][l] # NoSlug

\* Whether the page has an entry in localizedPaths.
getCustomPathsForPage(o, p) == \E l \in Locales : isCustom(o, p, l)

\* The custom path of p in l, or its own.
restFor(o, p, l) == IF isCustom(o, p, l) THEN o.custom[p][l] ELSE p

\* `order` is the position of the record among those of its page.
createRoute(name, p, accepts, rest, order) ==
  [name |-> name, page |-> p, accepts |-> accepts, rest |-> rest, redirect |-> NoPath,
   order |-> order]

buildRouteName(p, l, custom) ==
  IF custom THEN <<"localized", p, l>> ELSE <<"localized", p>>

position(l) == 1 + CHOOSE i \in DOMAIN LocaleList : LocaleList[i] = l

\* One prefixed route per locale of `ls`.
perLocale(o, p, ls) ==
  {createRoute(buildRouteName(p, l, isCustom(o, p, l)), p, {l}, restFor(o, p, l), position(l)) :
     l \in ls}

\* The prefixed routes of p for the locales `ls`: without any custom path they
\* share one, /:locale(a|b)/p.
localizedVariants(o, p, ls) ==
  IF ls = {} THEN {}
  ELSE IF getCustomPathsForPage(o, p) THEN perLocale(o, p, ls)
  ELSE {createRoute(<<"localized", p>>, p, ls, p, 2)}

originalPage(p) == createRoute(<<p>>, p, {}, p, 0)

\* Mutant of PrefixExceptDefault: the default locale keeps the page's own path.
DefaultUncustomised(o, p) ==
  LET allowed == getAllowedLocales(o, p)
  IN  (IF DefaultLocale \in allowed THEN {originalPage(p)} ELSE {})
      \union localizedVariants(o, p, allowed \ {DefaultLocale})

PrefixExceptDefault(o, p) ==
  LET allowed == getAllowedLocales(o, p)
  IN  (IF DefaultLocale \in allowed
       THEN {createRoute(<<p>>, p, {}, restFor(o, p, DefaultLocale), 0)} ELSE {})
      \union localizedVariants(o, p, allowed \ {DefaultLocale})

\* The original page stays; a custom path of the default locale gets a route
\* without and one with the prefix, under the same name.
PrefixAndDefault(o, p) ==
  LET allowed == getAllowedLocales(o, p)
  IN  {originalPage(p)}
      \union (IF isCustom(o, p, DefaultLocale) /\ DefaultLocale \in allowed
              THEN {createRoute(buildRouteName(p, DefaultLocale, TRUE), p, {},
                                restFor(o, p, DefaultLocale), 1)}
              ELSE {})
      \union localizedVariants(o, p, allowed)

Prefix(o, p) == localizedVariants(o, p, getAllowedLocales(o, p))

NoPrefix(o, p) ==
  {originalPage(p)} \union
  {createRoute(buildRouteName(p, l, TRUE), p, {}, o.custom[p][l], position(l)) :
     l \in {l \in getAllowedLocales(o, p) : isCustom(o, p, l) /\ o.custom[p][l] # p}}

\* The routes of one page; a page without localization stays as it is.
processPage(o, p) ==
  IF p \in o.off THEN {originalPage(p)}
  ELSE CASE o.strategy = "prefix"                -> Prefix(o, p)
         [] o.strategy = "prefix_except_default" -> PrefixExceptDefault(o, p)
         [] o.strategy = "prefix_and_default"    -> PrefixAndDefault(o, p)
         [] o.strategy = "no_prefix"             -> NoPrefix(o, p)

\* Under "prefix" the original path of a page with a custom path in the
\* default locale redirects to that.
postProcessPrefix(o, p, routes) ==
  routes \union
  IF isCustom(o, p, DefaultLocale)
  THEN {[createRoute(<<"redirect", p>>, p, {}, p, 0) EXCEPT
           !.redirect = Prefixed(DefaultLocale, o.custom[p][DefaultLocale])]}
  ELSE {}

extendPages(o, p) ==
  IF o.strategy = "prefix" THEN postProcessPrefix(o, p, processPage(o, p))
  ELSE processPage(o, p)

\* vue-router's table: of the records with one name the last one added stays.
Kept(routes) ==
  {r \in routes : \A q \in routes : q.name = r.name => q.order <= r.order}

RouteTable(o) == UNION {Kept(extendPages(o, p)) : p \in Pages}

\* The records a path matches.
Match(o, path) ==
  {r \in RouteTable(o) :
     /\ r.rest = path.rest
     /\ IF path.locale = NoLocale THEN r.accepts = {} ELSE path.locale \in r.accepts}

\* Two pages at one path are a mistake of the application: which of them the
\* router takes is not modelled.
ASSUME UnambiguousAssumption ==
  \A o \in Configs, path \in Paths : \A r, q \in Match(o, path) : r.page = q.page

hasRoute(o, name) == \E r \in RouteTable(o) : r.name = name

\* router.resolve of a route name with the :locale param `given`, or none: it
\* is then the one of the current path.  NoPath stands for the error vue-router
\* throws when the param or the name is missing.  The pattern of :locale is not
\* checked.
resolve(o, name, given, here) ==
  LET r == CHOOSE r \in RouteTable(o) : r.name = name
      l == IF given # NoLocale THEN given ELSE here.locale
  IN  IF ~hasRoute(o, name) \/ (r.accepts # {} /\ l = NoLocale) THEN NoPath
      ELSE IF r.accepts = {} THEN Bare(r.rest) ELSE Prefixed(l, r.rest)

-----------------------------------------------------------------------------
\* The URL of page p in locale l that route rules and prerendering use.
resolveLocalizedPath(o, p, l) ==
  IF \/ o.strategy = "no_prefix"
     \/ o.strategy = "prefix_except_default" /\ l = DefaultLocale
  THEN Bare(restFor(o, p, l)) ELSE Prefixed(l, restFor(o, p, l))

\* Whether route rules and prerendering take a path to l at all.
isLocaleAllowedForUnlocalizedRoute(o, rest, l) ==
  rest \in Pages /\ o.only[rest] # {} => l \in o.only[rest]
=============================================================================
