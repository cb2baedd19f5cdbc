--------------------------- MODULE RedirectsProofs ---------------------------
(***************************************************************************)
(* Proofs about the modules Redirects and PublishedPaths, for every set of *)
(* options, locales, pages and paths their assumptions allow: the type     *)
(* invariant, that no chain of redirects has more than two steps, that a   *)
(* prefixed page the server answered with is remembered, that a deep link  *)
(* without a prefix stays or ends at its URL in the default locale, that   *)
(* links, switches of the locale and reloads lead to the page and the locale *)
(* they promise, that a page's own path ends on the page, and that alternate *)
(* links and prerendered routes are routes of the build.                   *)
(*                                                                         *)
(* The second half rests on what the strategies build at runtime being what *)
(* the build generated: the records of the router's table are described by *)
(* their names (Plain, Named, Shared, Leading), and resolving a name is shown *)
(* to give the path resolveLocalizedPath gives (SwitchReaches, LinkReaches). *)
(***************************************************************************)
EXTENDS PublishedPaths, WellFoundedInduction, TLAPS

-----------------------------------------------------------------------------
(* The routes of the build.                                                *)

LEMMA OptionsTyped ==
  ASSUME NEW c \in Configs
  PROVE  /\ c.strategy \in Strategies
         /\ c.off \subseteq Pages
         /\ c.autoDetectPath \in {"exact", "no_prefix", "*"}
         /\ \A p \in Pages, l \in Locales : c.custom[p][l] \in Slugs \union {NoSlug}
         /\ \A p \in Pages : c.only[p] \subseteq Locales
         /\ \A p \in Pages, l \in Locales : c.custom[p][l] \in Pages => c.custom[p][l] = p
  BY RouteGenerationAssumption DEF RouteGenerationAssumption, Options

LEMMA BareTyped ==
  ASSUME NEW s \in Slugs
  PROVE  Bare(s) \in Paths /\ Bare(s).locale = NoLocale /\ Bare(s).rest = s
  BY DEF Bare, Paths

LEMMA PrefixedTyped ==
  ASSUME NEW l \in Locales, NEW s \in Slugs
  PROVE  /\ Prefixed(l, s) \in Paths /\ Prefixed(l, s).locale = l
         /\ Prefixed(l, s).rest = s
  BY DEF Prefixed, Paths

LEMMA PathTyped ==
  ASSUME NEW path \in Paths
  PROVE  path.locale \in Locales \union {NoLocale} /\ path.rest \in Slugs /\ path # NoPath
  BY RouteGenerationAssumption DEF RouteGenerationAssumption, Paths

LEMMA RestTyped ==
  ASSUME NEW c \in Configs, NEW p \in Pages, NEW l \in Locales
  PROVE  restFor(c, p, l) \in Slugs
  BY OptionsTyped, RouteGenerationAssumption
     DEF restFor, isCustom, RouteGenerationAssumption

\* A record of the router leads to a page; only "prefix" has redirect records,
\* which have no prefix themselves and lead to a path of the default locale.
RouteTyped(c, r) ==
  /\ r.page \in Pages /\ r.rest \in Slugs /\ r.accepts \subseteq Locales
  /\ r.redirect \in Paths \union {NoPath}
  /\ r.redirect # NoPath =>
       c.strategy = "prefix" /\ r.accepts = {} /\ r.redirect.locale = DefaultLocale

LEMMA CreatedTyped ==
  ASSUME NEW c, NEW name, NEW p \in Pages, NEW accepts \in SUBSET Locales,
         NEW rest \in Slugs, NEW order
  PROVE  RouteTyped(c, createRoute(name, p, accepts, rest, order))
  BY DEF RouteTyped, createRoute

LEMMA VariantsTyped ==
  ASSUME NEW c \in Configs, NEW p \in Pages, NEW ls \in SUBSET Locales,
         NEW r \in localizedVariants(c, p, ls)
  PROVE  RouteTyped(c, r)
<1>1. p \in Slugs
  BY RouteGenerationAssumption DEF RouteGenerationAssumption
<1>2. CASE r \in perLocale(c, p, ls)
  <2>1. PICK l \in ls :
          r = createRoute(buildRouteName(p, l, isCustom(c, p, l)), p, {l},
                          restFor(c, p, l), position(l))
    BY <1>2 DEF perLocale
  <2>2. l \in Locales /\ {l} \in SUBSET Locales /\ restFor(c, p, l) \in Slugs
    BY RestTyped
  <2> QED BY <2>1, <2>2, CreatedTyped
<1>3. CASE r = createRoute(<<"localized", p>>, p, ls, p, 2)
  BY <1>1, <1>3, CreatedTyped
<1> QED BY <1>2, <1>3 DEF localizedVariants

LEMMA ProcessedTyped ==
  ASSUME NEW c \in Configs, NEW p \in Pages, NEW r \in processPage(c, p)
  PROVE  RouteTyped(c, r)
<1> DEFINE allowed == getAllowedLocales(c, p)
<1>1. p \in Slugs /\ DefaultLocale \in Locales /\ {} \in SUBSET Locales
  BY RouteGenerationAssumption DEF RouteGenerationAssumption
<1>2. allowed \in SUBSET Locales /\ allowed \ {DefaultLocale} \in SUBSET Locales
  BY OptionsTyped DEF getAllowedLocales
<1>3. RouteTyped(c, originalPage(p))
  BY <1>1, CreatedTyped DEF originalPage
<1>4. \A name, order : RouteTyped(c, createRoute(name, p, {}, restFor(c, p, DefaultLocale), order))
  BY <1>1, RestTyped, CreatedTyped
<1> HIDE DEF allowed
<1>5. CASE p \in c.off
  BY <1>3, <1>5 DEF processPage
<1>6. CASE p \notin c.off /\ c.strategy = "prefix"
  BY <1>2, <1>6, VariantsTyped DEF processPage, Prefix, allowed
<1>7. CASE p \notin c.off /\ c.strategy = "prefix_except_default"
  BY <1>2, <1>4, <1>7, VariantsTyped DEF processPage, PrefixExceptDefault, allowed
<1>8. CASE p \notin c.off /\ c.strategy = "prefix_and_default"
  BY <1>2, <1>3, <1>4, <1>8, VariantsTyped DEF processPage, PrefixAndDefault, allowed
<1>9. CASE p \notin c.off /\ c.strategy = "no_prefix"
  <2>1. CASE r = originalPage(p)
    BY <1>3, <2>1
  <2>2. CASE r # originalPage(p)
    <3>1. PICK l \in allowed :
            /\ isCustom(c, p, l)
            /\ r = createRoute(buildRouteName(p, l, TRUE), p, {}, c.custom[p][l], position(l))
      BY <1>9, <2>2 DEF processPage, NoPrefix, allowed
    <3>2. c.custom[p][l] \in Slugs
      BY <1>2, <3>1, OptionsTyped DEF isCustom
    <3> QED BY <1>1, <3>1, <3>2, CreatedTyped
  <2> QED BY <2>1, <2>2
<1> QED BY <1>5, <1>6, <1>7, <1>8, <1>9, OptionsTyped DEF Strategies

LEMMA TableTyped ==
  ASSUME NEW c \in Configs, NEW r \in RouteTable(c)
  PROVE  RouteTyped(c, r)
<1>1. PICK p \in Pages : r \in extendPages(c, p)
  BY DEF RouteTable, Kept
<1>2. CASE r \in processPage(c, p)
  BY <1>2, ProcessedTyped
<1>3. CASE r \notin processPage(c, p)
  <2> DEFINE target == Prefixed(DefaultLocale, c.custom[p][DefaultLocale])
             record == createRoute(<<"redirect", p>>, p, {}, p, 0)
  <2>1. /\ c.strategy = "prefix" /\ isCustom(c, p, DefaultLocale)
        /\ r = [record EXCEPT !.redirect = target]
    BY <1>1, <1>3 DEF extendPages, postProcessPrefix
  <2>2. DefaultLocale \in Locales /\ c.custom[p][DefaultLocale] \in Slugs /\ p \in Slugs
    BY <2>1, OptionsTyped, RouteGenerationAssumption DEF isCustom, RouteGenerationAssumption
  <2>3. target \in Paths /\ target.locale = DefaultLocale
    BY <2>2, PrefixedTyped
  <2> HIDE DEF target
  <2>4. r.page = p /\ r.rest = p /\ r.accepts = {} /\ r.redirect = target
    BY <2>1 DEF createRoute
  <2> QED BY <2>1, <2>2, <2>3, <2>4 DEF RouteTyped
<1> QED BY <1>2, <1>3

-----------------------------------------------------------------------------
(* The records of the router's table and their names.  A page has at most  *)
(* one record under its own name, one for every custom path, and one that  *)
(* its other locales share; vue-router keeps the last added of each name.  *)

LEMMA PositionOf ==
  ASSUME NEW l \in Locales
  PROVE  /\ position(l) \in Nat /\ position(l) > 1
         /\ \A k \in Locales : position(k) = position(l) => k = l
<1> DEFINE at(k) == CHOOSE i \in DOMAIN LocaleList : LocaleList[i] = k
<1>1. DOMAIN LocaleList \subseteq Nat \ {0}
  BY RouteGenerationAssumption DEF RouteGenerationAssumption
<1>2. \A k \in Locales : at(k) \in DOMAIN LocaleList /\ LocaleList[at(k)] = k
  BY DEF Locales
<1>3. \A k \in Locales : position(k) = 1 + at(k)
  BY DEF position
<1> HIDE DEF at
<1>4. \A k \in Locales : at(k) \in Nat \ {0}
  BY <1>1, <1>2
<1>5. \A k \in Locales : position(k) = position(l) => at(k) = at(l)
  BY <1>3, <1>4
<1> QED
  BY <1>2, <1>3, <1>4, <1>5

\* The locales whose routes have a prefix.
Prefixing(c, p) ==
  IF c.strategy = "prefix_except_default" THEN getAllowedLocales(c, p) \ {DefaultLocale}
  ELSE getAllowedLocales(c, p)

\* The record under the page's own name.
Plain(c, p, r) ==
  /\ r.name = <<p>> /\ r.accepts = {} /\ r.redirect = NoPath /\ r.order = 0
  /\ p \in c.off \/ c.strategy # "prefix"
  /\ IF p \notin c.off /\ c.strategy = "prefix_except_default"
     THEN DefaultLocale \in getAllowedLocales(c, p) /\ r.rest = restFor(c, p, DefaultLocale)
     ELSE r.rest = p

\* A record of a custom path.
Named(c, p, l, r) ==
  /\ p \notin c.off /\ isCustom(c, p, l) /\ l \in getAllowedLocales(c, p)
  /\ r.name = <<"localized", p, l>> /\ r.rest = c.custom[p][l] /\ r.redirect = NoPath
  /\ c.strategy = "prefix_except_default" => l # DefaultLocale
  /\ \/ c.strategy = "no_prefix" /\ r.accepts = {} /\ r.rest # p /\ r.order = position(l)
     \/ c.strategy # "no_prefix" /\ r.accepts = {l} /\ r.order = position(l)
     \/ c.strategy = "prefix_and_default" /\ l = DefaultLocale /\ r.accepts = {} /\ r.order = 1

\* A record of the page's own path, with the prefix of every locale of the page,
\* or of one of those without a custom path.
Shared(c, p, r) ==
  /\ p \notin c.off /\ c.strategy # "no_prefix"
  /\ r.name = <<"localized", p>> /\ r.rest = p /\ r.redirect = NoPath
  /\ r.accepts # {} /\ r.accepts \subseteq Prefixing(c, p)
  /\ \/ ~getCustomPathsForPage(c, p) /\ r.accepts = Prefixing(c, p) /\ r.order = 2
     \/ getCustomPathsForPage(c, p) /\ \E l \in Prefixing(c, p) :
          r.accepts = {l} /\ ~isCustom(c, p, l) /\ r.order = position(l)

\* A redirect record of the page.
Leading(c, p, r) ==
  /\ c.strategy = "prefix" /\ r.name = <<"redirect", p>> /\ r.accepts = {} /\ r.rest = p
  /\ r.order = 0
  /\ isCustom(c, p, DefaultLocale)
  /\ r.redirect = Prefixed(DefaultLocale, c.custom[p][DefaultLocale])

LEMMA VariantShape ==
  ASSUME NEW c \in Configs, NEW p \in Pages \ c.off, c.strategy # "no_prefix",
         NEW r \in localizedVariants(c, p, Prefixing(c, p))
  PROVE  r.page = p /\ (Shared(c, p, r) \/ \E l \in Locales : Named(c, p, l, r))
<1> DEFINE ls == Prefixing(c, p)
<1>1. /\ ls \subseteq getAllowedLocales(c, p) /\ ls \subseteq Locales
      /\ c.strategy = "prefix_except_default" => DefaultLocale \notin ls
  BY OptionsTyped DEF Prefixing, getAllowedLocales
<1>2. ls # {}
  BY DEF localizedVariants
<1>3. CASE getCustomPathsForPage(c, p)
  <2>1. PICK l \in ls :
          r = createRoute(buildRouteName(p, l, isCustom(c, p, l)), p, {l},
                          restFor(c, p, l), position(l))
    BY <1>2, <1>3 DEF localizedVariants, perLocale
  <2>2. CASE isCustom(c, p, l)
    BY <1>1, <2>1, <2>2 DEF createRoute, buildRouteName, restFor, Named
  <2>3. CASE ~isCustom(c, p, l)
    BY <1>1, <1>3, <2>1, <2>3 DEF createRoute, buildRouteName, restFor, Shared
  <2> QED
    BY <2>2, <2>3
<1>4. CASE ~getCustomPathsForPage(c, p)
  BY <1>2, <1>4 DEF localizedVariants, createRoute, Shared
<1> QED
  BY <1>3, <1>4

LEMMA ProcessedShape ==
  ASSUME NEW c \in Configs, NEW p \in Pages, NEW r \in processPage(c, p)
  PROVE  r.page = p /\ (Plain(c, p, r) \/ Shared(c, p, r) \/ \E l \in Locales : Named(c, p, l, r))
<1> DEFINE allowed == getAllowedLocales(c, p)
<1>1. allowed \subseteq Locales /\ DefaultLocale \in Locales
  BY OptionsTyped, RouteGenerationAssumption DEF getAllowedLocales, RouteGenerationAssumption
<1> HIDE DEF allowed
<1>2. CASE p \in c.off
  BY <1>2 DEF processPage, originalPage, createRoute, Plain
<1>3. CASE p \notin c.off /\ c.strategy = "prefix"
  <2>1. r \in localizedVariants(c, p, Prefixing(c, p))
    BY <1>3 DEF processPage, Prefix, Prefixing
  <2> QED
    BY <1>3, <2>1, VariantShape
<1>4. CASE p \notin c.off /\ c.strategy = "prefix_except_default"
  <2>1. CASE r \in localizedVariants(c, p, Prefixing(c, p))
    BY <1>4, <2>1, VariantShape
  <2>2. CASE r \notin localizedVariants(c, p, Prefixing(c, p))
    BY <1>4, <2>2 DEF processPage, PrefixExceptDefault, Prefixing, createRoute, Plain
  <2> QED
    BY <2>1, <2>2
<1>5. CASE p \notin c.off /\ c.strategy = "prefix_and_default"
  <2>1. CASE r \in localizedVariants(c, p, Prefixing(c, p))
    BY <1>5, <2>1, VariantShape
  <2>2. CASE r = originalPage(p)
    BY <1>5, <2>2 DEF originalPage, createRoute, Plain
  <2>3. CASE r \notin localizedVariants(c, p, Prefixing(c, p)) /\ r # originalPage(p)
    <3>1. /\ isCustom(c, p, DefaultLocale) /\ DefaultLocale \in getAllowedLocales(c, p)
          /\ r = createRoute(buildRouteName(p, DefaultLocale, TRUE), p, {},
                             restFor(c, p, DefaultLocale), 1)
      BY <1>5, <2>3 DEF processPage, PrefixAndDefault, Prefixing
    <3>2. r.page = p /\ Named(c, p, DefaultLocale, r)
      BY <1>5, <3>1 DEF createRoute, buildRouteName, restFor, Named
    <3> QED
      BY <1>1, <3>2
  <2> QED
    BY <2>1, <2>2, <2>3
<1>6. CASE p \notin c.off /\ c.strategy = "no_prefix"
  <2>1. CASE r = originalPage(p)
    BY <1>6, <2>1 DEF originalPage, createRoute, Plain
  <2>2. CASE r # originalPage(p)
    <3>1. PICK l \in allowed :
            /\ isCustom(c, p, l) /\ c.custom[p][l] # p
            /\ r = createRoute(buildRouteName(p, l, TRUE), p, {}, c.custom[p][l], position(l))
      BY <1>6, <2>2 DEF processPage, NoPrefix, allowed
    <3>2. r.page = p /\ Named(c, p, l, r)
      BY <1>6, <3>1 DEF createRoute, buildRouteName, Named, allowed
    <3> QED
      BY <1>1, <3>1, <3>2
  <2> QED
    BY <2>1, <2>2
<1> QED
  BY <1>2, <1>3, <1>4, <1>5, <1>6, OptionsTyped DEF Strategies

\* What a record of a page can be, and what its name says.
LEMMA ExtendedShape ==
  ASSUME NEW c \in Configs, NEW p \in Pages, NEW r \in extendPages(c, p)
  PROVE  /\ r.page = p
         /\ \/ Plain(c, p, r) \/ Shared(c, p, r) \/ Leading(c, p, r)
            \/ \E l \in Locales : Named(c, p, l, r)
<1>1. CASE r \in processPage(c, p)
  BY <1>1, ProcessedShape
<1>2. CASE r \notin processPage(c, p)
  <2>1. /\ c.strategy = "prefix" /\ isCustom(c, p, DefaultLocale)
        /\ r = [createRoute(<<"redirect", p>>, p, {}, p, 0) EXCEPT
                  !.redirect = Prefixed(DefaultLocale, c.custom[p][DefaultLocale])]
    BY <1>2 DEF extendPages, postProcessPrefix
  <2>2. r.page = p /\ Leading(c, p, r)
    BY <2>1 DEF createRoute, Leading
  <2> QED
    BY <2>2
<1> QED
  BY <1>1, <1>2

LEMMA NamesApart ==
  ASSUME NEW p, NEW q, NEW l, NEW k
  PROVE  /\ <<p>> # <<"localized", q>> /\ <<p>> # <<"localized", q, k>> /\ <<p>> # <<"redirect", q>>
         /\ <<"localized", p>> # <<"localized", q, k>> /\ <<"localized", p>> # <<"redirect", q>>
         /\ <<"localized", p, l>> # <<"redirect", q>>
         /\ <<p>> = <<q>> => p = q
         /\ <<"redirect", p>> = <<"redirect", q>> => p = q
         /\ <<"localized", p>> = <<"localized", q>> => p = q
         /\ <<"localized", p, l>> = <<"localized", q, k>> => p = q /\ l = k
<1>1. /\ <<p>>[1] = p /\ <<q>>[1] = q
      /\ <<"localized", p>>[2] = p /\ <<"localized", q>>[2] = q
      /\ <<"localized", p, l>>[2] = p /\ <<"localized", q, k>>[2] = q
      /\ <<"localized", p, l>>[3] = l /\ <<"localized", q, k>>[3] = k
      /\ <<"localized", p>>[1] = "localized" /\ <<"redirect", q>>[1] = "redirect"
      /\ <<"redirect", p>>[2] = p /\ <<"redirect", q>>[2] = q
  OBVIOUS
<1>2. /\ Len(<<p>>) = 1 /\ Len(<<"localized", q>>) = 2 /\ Len(<<"localized", q, k>>) = 3
      /\ Len(<<"redirect", q>>) = 2 /\ Len(<<"localized", p>>) = 2 /\ Len(<<"localized", p, l>>) = 3
  OBVIOUS
<1> QED
  BY <1>1, <1>2

\* The records of a page under one name.
LEMMA ByNameOfPage ==
  ASSUME NEW c \in Configs, NEW q \in Pages, NEW r \in extendPages(c, q), NEW p
  PROVE  /\ r.name = <<p>> => q = p /\ Plain(c, p, r)
         /\ r.name = <<"redirect", p>> => q = p
         /\ r.name = <<"localized", p>> => q = p /\ Shared(c, p, r)
         /\ \A l \in Locales : r.name = <<"localized", p, l>> => q = p /\ Named(c, p, l, r)
<1>1. \/ Plain(c, q, r) \/ Shared(c, q, r) \/ Leading(c, q, r)
      \/ \E l \in Locales : Named(c, q, l, r)
  BY ExtendedShape
<1>2. CASE Plain(c, q, r)
  <2>1. r.name = <<q>>
    BY <1>2 DEF Plain
  <2> QED
    BY <1>2, <2>1, NamesApart
<1>3. CASE Shared(c, q, r)
  <2>1. r.name = <<"localized", q>>
    BY <1>3 DEF Shared
  <2> QED
    BY <1>3, <2>1, NamesApart
<1>4. CASE Leading(c, q, r)
  <2>1. r.name = <<"redirect", q>>
    BY <1>4 DEF Leading
  <2> QED
    BY <1>4, <2>1, NamesApart
<1>5. CASE \E k \in Locales : Named(c, q, k, r)
  <2>1. PICK k \in Locales : Named(c, q, k, r)
    BY <1>5
  <2>2. r.name = <<"localized", q, k>>
    BY <2>1 DEF Named
  <2> QED
    BY <2>1, <2>2, NamesApart
<1> QED
  BY <1>1, <1>2, <1>3, <1>4, <1>5

\* The records of the table under one name.
LEMMA ByName ==
  ASSUME NEW c \in Configs, NEW p, NEW r \in RouteTable(c)
  PROVE  /\ r.page \in Pages /\ r \in Kept(extendPages(c, r.page))
         /\ \/ Plain(c, r.page, r) \/ Shared(c, r.page, r) \/ Leading(c, r.page, r)
            \/ \E l \in Locales : Named(c, r.page, l, r)
         /\ r.name = <<p>> => r.page = p /\ Plain(c, p, r)
         /\ r.name = <<"redirect", p>> => r.page = p
         /\ r.name = <<"localized", p>> => r.page = p /\ Shared(c, p, r)
         /\ \A l \in Locales : r.name = <<"localized", p, l>> => r.page = p /\ Named(c, p, l, r)
<1>1. PICK q \in Pages : r \in Kept(extendPages(c, q)) /\ r \in extendPages(c, q)
  BY DEF RouteTable, Kept
<1>2. r.page = q
  BY <1>1, ExtendedShape
<1> QED
  BY <1>1, <1>2, ExtendedShape, ByNameOfPage

LEMMA TableShape ==
  ASSUME NEW c \in Configs, NEW r \in RouteTable(c)
  PROVE  r.name \in Names /\ r.name # NoName /\ r.order \in Nat
<1>1. /\ r.page \in Pages
      /\ \/ Plain(c, r.page, r) \/ Shared(c, r.page, r) \/ Leading(c, r.page, r)
         \/ \E l \in Locales : Named(c, r.page, l, r)
  BY ByName
<1>2. CASE Plain(c, r.page, r)
  BY <1>1, <1>2 DEF Plain, Names, NoName
<1>3. CASE Shared(c, r.page, r)
  <2>1. Prefixing(c, r.page) \subseteq Locales
    BY <1>1, OptionsTyped DEF Prefixing, getAllowedLocales
  <2>2. r.order \in Nat
    BY <1>3, <2>1, PositionOf DEF Shared
  <2> QED
    BY <1>1, <1>3, <2>2 DEF Shared, Names, NoName
<1>4. CASE Leading(c, r.page, r)
  BY <1>1, <1>4 DEF Leading, Names, NoName
<1>5. CASE \E l \in Locales : Named(c, r.page, l, r)
  <2>1. PICK l \in Locales : Named(c, r.page, l, r)
    BY <1>5
  <2>2. r.order \in Nat
    BY <2>1, PositionOf DEF Named
  <2> QED
    BY <1>1, <2>1, <2>2 DEF Named, Names, NoName
<1> QED
  BY <1>1, <1>2, <1>3, <1>4, <1>5

\* Records of one name belong to one page.
LEMMA NamesOnePage ==
  ASSUME NEW c \in Configs, NEW r \in RouteTable(c), NEW q \in RouteTable(c), r.name = q.name
  PROVE  r.page = q.page
<1>1. \/ r.name = <<r.page>> \/ r.name = <<"localized", r.page>> \/ r.name = <<"redirect", r.page>>
      \/ \E l \in Locales : r.name = <<"localized", r.page, l>>
  BY ByName DEF Plain, Shared, Leading, Named
<1> QED
  BY <1>1, ByName

-----------------------------------------------------------------------------
(* Paths the strategy builds and locales that are detected.                *)

LEMMA ResolveTyped ==
  ASSUME NEW c \in Configs, NEW name, NEW given \in Locales \union {NoLocale},
         NEW here, here.locale \in Locales \union {NoLocale}
  PROVE  resolve(c, name, given, here) \in Paths \union {NoPath}
<1> DEFINE r == CHOOSE r \in RouteTable(c) : r.name = name
           l == IF given # NoLocale THEN given ELSE here.locale
<1>1. CASE ~hasRoute(c, name)
  BY <1>1 DEF resolve
<1>2. CASE hasRoute(c, name)
  <2>1. r \in RouteTable(c)
    BY <1>2 DEF hasRoute
  <2>2. r.rest \in Slugs
    BY <2>1, TableTyped DEF RouteTyped
  <2>3. l \in Locales \union {NoLocale}
    OBVIOUS
  <2>4. Bare(r.rest) \in Paths /\ (l # NoLocale => Prefixed(l, r.rest) \in Paths)
    BY <2>2, <2>3, BareTyped, PrefixedTyped
  <2>5. resolve(c, name, given, here) =
          IF r.accepts # {} /\ l = NoLocale THEN NoPath
          ELSE IF r.accepts = {} THEN Bare(r.rest) ELSE Prefixed(l, r.rest)
    BY <1>2 DEF resolve
  <2> HIDE DEF r, l
  <2> QED BY <2>4, <2>5
<1> QED BY <1>1, <1>2

LEMMA ResolvedRestTyped ==
  ASSUME NEW c \in Configs, NEW rest \in Slugs, NEW l \in Locales
  PROVE  resolvePathForLocale(c, rest, l) \in Slugs
  BY RestTyped DEF resolvePathForLocale

LEMMA LocalizedTyped ==
  ASSUME NEW c, NEW rest \in Slugs, NEW l \in Locales
  PROVE  buildLocalizedPath(c, rest, l) \in Paths
  BY BareTyped, PrefixedTyped DEF buildLocalizedPath

LEMMA ByNameTyped ==
  ASSUME NEW c \in Configs, NEW base, NEW l \in Locales, NEW here \in Paths
  PROVE  /\ tryResolveByLocalizedName(c, base, l, here) \in Paths \union {NoPath}
         /\ tryResolveByName(c, base) \in Paths \union {NoPath}
<1>1. here.locale \in Locales \union {NoLocale}
  BY PathTyped
<1>2. \A name : \A g \in Locales \union {NoLocale} : resolve(c, name, g, here) \in Paths \union {NoPath}
  BY <1>1, ResolveTyped
<1>3. tryResolveByLocalizedName(c, base, l, here) \in Paths \union {NoPath}
  BY <1>2 DEF tryResolveByLocalizedName
<1>4. tryResolveByName(c, base) \in Paths \union {NoPath}
  <2>1. Bare(base[1]).locale = NoLocale
    BY DEF Bare
  <2> QED BY <2>1, ResolveTyped DEF tryResolveByName
<1> QED BY <1>3, <1>4

LEMMA SwitchTyped ==
  ASSUME NEW c \in Configs, NEW base, NEW to \in Locales, NEW here \in Paths
  PROVE  switchLocaleRoute(c, base, here, to) \in Paths \union {NoPath}
<1>1. defaultSwitchLocaleRoute(c, base, here, to) \in Paths \union {NoPath}
  BY ByNameTyped DEF defaultSwitchLocaleRoute
<1>2. exceptDefaultSwitchLocaleRoute(c, base, here, to) \in Paths \union {NoPath}
  <2>1. buildLocalizedPath(c, here.rest, to) \in Paths
    BY PathTyped, LocalizedTyped
  <2>2. resolve(c, switchLocaleName(c, base, to), to, here) \in Paths \union {NoPath}
    BY PathTyped, ResolveTyped
  <2> QED BY <2>1, <2>2 DEF exceptDefaultSwitchLocaleRoute
<1> QED BY <1>1, <1>2 DEF switchLocaleRoute

LEMMA LinkByPathTyped ==
  ASSUME NEW c \in Configs, NEW p \in Pages, NEW l \in Locales
  PROVE  localeRouteByPath(c, p, l) \in Paths
<1>1. p \in Slugs
  BY RouteGenerationAssumption DEF RouteGenerationAssumption
<1> QED BY <1>1, ResolvedRestTyped, LocalizedTyped DEF localeRouteByPath

LEMMA LinkByNameTyped ==
  ASSUME NEW c \in Configs, NEW p \in Pages, NEW l \in Locales, NEW here \in Paths
  PROVE  localeRouteByName(c, p, l, here) \in Paths \union {NoPath}
<1>1. p \in Slugs /\ Bare(p) \in Paths /\ Prefixed(l, p) \in Paths
  BY BareTyped, PrefixedTyped, RouteGenerationAssumption DEF RouteGenerationAssumption
<1>2. buildLocalizedPath(c, p, l) \in Paths
  BY <1>1, LocalizedTyped
<1>3. customRoute(c, p, l) \in Paths \union {NoPath}
  BY RestTyped, LocalizedTyped DEF customRoute, When
<1>4. sameRoute(c, p, l) \in Paths \union {NoPath}
  BY ByNameTyped, PathTyped, LocalizedTyped DEF sameRoute
<1>5. tryResolveByLocalizedName(c, <<p>>, l, here) \in Paths \union {NoPath}
  BY ByNameTyped
<1>6. rewriteWithLocalePrefix(tryResolveByLocalizedName(c, <<p>>, l, here), l)
        \in Paths \union {NoPath}
  BY <1>5, PathTyped, PrefixedTyped DEF rewriteWithLocalePrefix
<1>7. defaultResolveLocaleRoute(c, p, l, here) \in Paths \union {NoPath}
  BY <1>1, <1>2, <1>3, <1>4, <1>5 DEF defaultResolveLocaleRoute, When, ??
<1>8. andDefaultResolveLocaleRoute(c, p, l, here) \in Paths \union {NoPath}
  BY <1>1, <1>3, <1>4, <1>6 DEF andDefaultResolveLocaleRoute, When, ??
<1>9. exceptDefaultResolveLocaleRoute(c, p, l, here) \in Paths \union {NoPath}
  BY <1>1, <1>2, <1>3, <1>4, <1>5 DEF exceptDefaultResolveLocaleRoute, When, ??
<1> QED BY <1>7, <1>8, <1>9, OptionsTyped DEF localeRouteByName, Strategies

LEMMA AutoDetectTyped ==
  ASSUME NEW c, NEW l \in Locales, NEW explicit, NEW a \in Locales \union {NoLocale}
  PROVE  applyAutoDetectLanguage(c, l, explicit, a) \in Locales
  BY DEF applyAutoDetectLanguage

LEMMA FirstValidTyped ==
  ASSUME NEW c, NEW candidates, DOMAIN candidates \subseteq 1..3,
         NEW a \in Locales \union {NoLocale}
  PROVE  firstValid(c, candidates, a) \in Locales
<1> DEFINE valid == {i \in DOMAIN candidates : candidates[i] \in Locales}
           best  == CHOOSE i \in valid : \A j \in valid : i <= j
<1>1. DefaultLocale \in Locales
  BY RouteGenerationAssumption DEF RouteGenerationAssumption
<1>2. valid # {} => best \in valid
  <2>1. \A i \in valid : i = 1 \/ i = 2 \/ i = 3
    OBVIOUS
  <2>2. CASE 1 \in valid
    BY <2>1, <2>2
  <2>3. CASE 1 \notin valid /\ 2 \in valid
    BY <2>1, <2>3
  <2>4. CASE 1 \notin valid /\ 2 \notin valid
    BY <2>1, <2>4
  <2> QED BY <2>2, <2>3, <2>4
<1>3. valid # {} => candidates[best] \in Locales
  BY <1>2
<1>4. firstValid(c, candidates, a) =
        applyAutoDetectLanguage(c, IF valid = {} THEN DefaultLocale ELSE candidates[best],
                                valid # {}, a)
  BY DEF firstValid
<1> HIDE DEF valid, best
<1> QED BY <1>1, <1>3, <1>4, AutoDetectTyped

LEMMA DetectedTyped ==
  ASSUME NEW c, NEW u, NEW q, NEW k, NEW a \in Locales \union {NoLocale}
  PROVE  /\ resolveServerLocale(c, u, q, k, a) \in Locales
         /\ resolvePreferredLocale(c, u, k, a) \in Locales
<1>1. DOMAIN <<u, q, k>> \subseteq 1..3
  OBVIOUS
<1>2. DOMAIN (IF c.autoDetectPath = "*" THEN <<k>> ELSE <<u, k>>) \subseteq 1..3
  <2>1. DOMAIN <<k>> \subseteq 1..3 /\ DOMAIN <<u, k>> \subseteq 1..3
    OBVIOUS
  <2> QED BY <2>1
<1> QED BY <1>1, <1>2, FirstValidTyped DEF resolveServerLocale, resolvePreferredLocale

LEMMA CurrentTyped ==
  ASSUME NEW c \in Configs, NEW path \in Paths, NEW l \in Locales \union {NoLocale}
  PROVE  getCurrentLocale(c, path, l) \in Locales
<1>1. DefaultLocale \in Locales
  BY RouteGenerationAssumption DEF RouteGenerationAssumption
<1>2. path.locale \in Locales \union {NoLocale}
  BY PathTyped
<1> QED BY <1>1, <1>2, OptionsTyped DEF getCurrentLocale, Strategies

-----------------------------------------------------------------------------
(* The type invariant.  What the user sees is a page wherever the status   *)
(* says so: $switchLocale reads it.                                        *)

TypeInv == TypeOK /\ (tab.status = "page" => tab.page \in Pages)

LEMMA TabTyped ==
  ASSUME TypeInv
  PROVE  /\ tab.path \in Paths /\ tab.name \in Names /\ tab.page \in Pages \union {NoPage}
         /\ tab.status \in {"blank", "page", "error"}
  BY DEF TypeInv, TypeOK

LEMMA GoingTyped ==
  ASSUME TypeInv, going # NoTarget
  PROVE  /\ going \in Targets
         /\ going.by \in {"server", "client"} /\ going.path \in Paths
         /\ going.query \in Queries \union {NoLocale}
         /\ going.name \in Names
  BY DEF TypeInv, TypeOK, Targets

LEMMA RecordTargetsTyped ==
  ASSUME TypeInv, NEW path \in Paths
  PROVE  /\ RecordTargets(path) \subseteq Paths
         /\ \A t \in RecordTargets(path) :
              o.strategy = "prefix" /\ path.locale = NoLocale /\ t.locale = DefaultLocale
<1>1. o \in Configs
  BY DEF TypeInv, TypeOK
<1> SUFFICES ASSUME NEW t \in RecordTargets(path)
             PROVE  /\ t \in Paths /\ t.locale = DefaultLocale
                    /\ o.strategy = "prefix" /\ path.locale = NoLocale
  OBVIOUS
<1>2. PICK r \in RouteTable(o) :
        /\ r.redirect # NoPath /\ t = r.redirect
        /\ IF path.locale = NoLocale THEN r.accepts = {} ELSE path.locale \in r.accepts
  BY DEF RecordTargets, Match
<1>3. RouteTyped(o, r)
  BY <1>1, <1>2, TableTyped
<1> QED BY <1>2, <1>3 DEF RouteTyped

\* Of the records a path matches there is a first one.
LEMMA MatchedIs ==
  ASSUME o \in Configs, NEW path, Match(o, path) # {}
  PROVE  /\ matched(path) \in Match(o, path) /\ matched(path) \in RouteTable(o)
         /\ \A q \in Match(o, path) : matched(path).order <= q.order
<1> DEFINE orders == {r.order : r \in Match(o, path)}
<1>1. \A r \in Match(o, path) : r.order \in Nat
  BY TableShape DEF Match
<1>2. orders \subseteq Nat /\ orders # {}
  BY <1>1
<1>3. \E n \in orders : \A m \in orders : <<m, n>> \notin OpToRel(<, Nat)
  <2> HIDE DEF orders
  <2> QED BY <1>2, NatLessThanWellFounded, WFMin
<1>4. PICK n \in orders : \A m \in orders : n <= m
  <2> HIDE DEF orders
  <2>1. PICK n \in orders : \A m \in orders : <<m, n>> \notin OpToRel(<, Nat)
    BY <1>3
  <2>2. ASSUME NEW m \in orders PROVE n <= m
    <3>1. m \in Nat /\ n \in Nat
      BY <1>2, <2>1, <2>2
    <3>2. <<m, n>> \in Nat \X Nat /\ <<m, n>>[1] = m /\ <<m, n>>[2] = n
      BY <3>1
    <3>3. m < n => <<m, n>> \in OpToRel(<, Nat)
      BY <3>1, <3>2 DEF OpToRel
    <3>4. <<m, n>> \notin OpToRel(<, Nat)
      BY <2>1, <2>2
    <3>5. ~(m < n)
      BY <3>3, <3>4
    <3> QED BY <3>1, <3>5
  <2> QED BY <2>1, <2>2
<1>5. PICK r \in Match(o, path) : r.order = n
  OBVIOUS
<1>6. \A q \in Match(o, path) : r.order <= q.order
  BY <1>4, <1>5
<1> QED BY <1>6 DEF matched, Match

LEMMA NameTyped ==
  ASSUME o \in Configs, NEW path
  PROVE  NameAt(path) \in Names
<1>1. CASE Match(o, path) = {}
  BY <1>1 DEF NameAt, Names
<1>2. CASE Match(o, path) # {}
  BY <1>2, MatchedIs, TableShape DEF NameAt
<1> QED BY <1>1, <1>2

LEMMA DocumentTyped ==
  ASSUME o \in Configs, NEW path \in Paths, NEW name \in Names
  PROVE  /\ Document(path, name) \in [path : Paths, name : Names, page : Pages \union {NoPage},
                                      status : {"blank", "page", "error"}]
         /\ Document(path, name).path = path
         /\ Document(path, name).name = name
         /\ Document(path, name).status \in {"page", "error"}
         /\ Document(path, name).status = "page" => Document(path, name).page \in Pages
<1> DEFINE pages == {r.page : r \in {r \in RouteTable(o) : r.name = name}}
<1>1. pages \subseteq Pages
  BY TableTyped DEF RouteTyped
<1>2. Document(path, name) =
        [path |-> path, name |-> name,
         page |-> IF pages = {} THEN NoPage ELSE CHOOSE p \in pages : TRUE,
         status |-> IF pages = {} THEN "error" ELSE "page"]
  BY DEF Document
<1>3. pages # {} => (CHOOSE p \in pages : TRUE) \in Pages
  BY <1>1
<1> HIDE DEF pages
<1> QED BY <1>2, <1>3

LEMMA RedirectTyped ==
  ASSUME TypeInv, NEW path \in Paths, NEW l \in Locales
  PROVE  redirectFrom(path, l) \in Paths \union {NoPath}
<1>1. o \in Configs
  BY DEF TypeInv, TypeOK
<1>2. starRewrite(path, l) \in Paths \union {NoPath}
  BY PathTyped, BareTyped, PrefixedTyped DEF starRewrite, When
<1>3. getClientRedirect(o, path, l) \in Paths \union {NoPath}
  <2>1. resolvePathForLocale(o, path.rest, l) \in Slugs
    BY <1>1, PathTyped, ResolvedRestTyped
  <2> QED BY <2>1, LocalizedTyped DEF getClientRedirect, When
<1> QED BY <1>2, <1>3 DEF redirectFrom, ??

LEMMA PreferredTyped ==
  ASSUME TypeInv, NEW req
  PROVE  detected(req) \in Locales /\ preferredLocale(req) \in Locales
<1>1. accept \in Locales \union {NoLocale}
  BY RedirectsAssumption DEF TypeInv, TypeOK, RedirectsAssumption
<1>2. DefaultLocale \in Locales
  BY RouteGenerationAssumption DEF RouteGenerationAssumption
<1> QED BY <1>1, <1>2, DetectedTyped DEF detected, preferredLocale, gated

LEMMA ServerTargetsTyped ==
  ASSUME TypeInv, NEW req, req.path \in Paths
  PROVE  ServerTargets(req) \subseteq Paths
<1>1. RecordTargets(req.path) \subseteq Paths
  BY RecordTargetsTyped
<1>2. redirectFrom(req.path, preferredLocale(req)) \in Paths \union {NoPath}
  BY PreferredTyped, RedirectTyped
<1> QED BY <1>1, <1>2 DEF ServerTargets

LEMMA SyncedTyped ==
  ASSUME TypeInv, NEW req, req.path \in Paths
  PROVE  syncedCookie(req) \in Remembered
<1>1. req.path.locale \in Locales \union {NoLocale} /\ preferredLocale(req) \in Locales
  BY PathTyped, PreferredTyped
<1>2. cookie \in Remembered
  BY DEF TypeInv, TypeOK
<1>3. \A l \in Locales : setCookie(l) \in Remembered
  BY <1>2 DEF setCookie, Remembered
<1> QED BY <1>1, <1>2, <1>3 DEF syncedCookie

LEMMA PushTyped ==
  ASSUME TypeInv, NEW path \in Paths, NEW name \in Names, Push(path, name)
  PROVE  going' \in Targets /\ going'.by = "client"
<1> DEFINE t == CHOOSE t \in RecordTargets(path) : TRUE
<1>1. RecordTargets(path) # {} => t \in Paths
  BY RecordTargetsTyped
<1>2. NoName \in Names
  BY DEF Names
<1> HIDE DEF t
<1>3. going' = [by |-> "client", query |-> NoLocale,
                path |-> IF RecordTargets(path) = {} THEN path ELSE t,
                name |-> IF RecordTargets(path) = {} THEN name ELSE NoName]
  BY DEF Push, t
<1> QED BY <1>1, <1>2, <1>3 DEF Targets

LEMMA PromiseTyped ==
  ASSUME NEW holds, NEW p \in Pages, NEW l \in Locales
  PROVE  Promise(holds, p, l) \in Aims \union {NoAim}
  BY DEF Promise, Aims

LEMMA FollowTyped ==
  ASSUME TypeInv, NEW path \in Paths, NEW promise \in Aims \union {NoAim},
         Follow(path, promise)
  PROVE  TypeInv'
<1>1. going' \in Targets
  <2>1. NoName \in Names
    BY DEF Names
  <2> QED BY <2>1, PushTyped DEF Follow
<1> QED BY <1>1 DEF Follow, TypeInv, TypeOK

LEMMA TypeStep ==
  ASSUME TypeInv, [Next]_vars
  PROVE  TypeInv'
<1> USE DEF TypeInv, TypeOK
<1>c. o \in Configs
  OBVIOUS
<1>d. Bare(Index) \in Paths /\ \A p \in Pages : Bare(p) \in Paths
  BY BareTyped, RouteGenerationAssumption DEF RouteGenerationAssumption
<1>e. NoName \in Names
  BY DEF Names
<1>1. ASSUME NEW path \in Paths, NEW query \in Queries, Enter(path, query)
      PROVE  TypeInv'
  <2>1. going' \in Targets
    BY <1>1, <1>e DEF Enter, Targets
  <2>2. /\ tab' \in [path : Paths, name : Names, page : Pages \union {NoPage},
                     status : {"blank", "page", "error"}]
        /\ tab'.status # "page"
    BY <1>1, <1>d, <1>e DEF Enter, Blank
  <2> QED BY <1>1, <2>1, <2>2 DEF Enter
<1>2. CASE RespondNotFound
  <2>1. going.path \in Paths
    BY <1>2, GoingTyped DEF RespondNotFound, Requested
  <2> QED BY <1>2, <1>e, <2>1, DocumentTyped DEF RespondNotFound
<1>3. CASE RespondRedirect
  <2>1. going \in Targets /\ going.path \in Paths
    BY <1>3, GoingTyped DEF RespondRedirect, Requested
  <2>2. PICK t \in ServerTargets(going) : going' = [going EXCEPT !.path = t]
    BY <1>3 DEF RespondRedirect
  <2>3. t \in Paths
    BY <2>1, ServerTargetsTyped
  <2>4. going' \in Targets
    BY <2>1, <2>2, <2>3 DEF Targets
  <2>5. cookie' \in Remembered
    BY <1>3, <2>1, SyncedTyped DEF RespondRedirect
  <2> QED BY <1>3, <2>4, <2>5 DEF RespondRedirect
<1>4. CASE Respond
  <2>1. going.path \in Paths
    BY <1>4, GoingTyped DEF Respond, Requested
  <2>2. NameAt(going.path) \in Names
    BY NameTyped
  <2>3. /\ tab' \in [path : Paths, name : Names, page : Pages \union {NoPage},
                     status : {"blank", "page", "error"}]
        /\ tab'.status = "page" => tab'.page \in Pages
    BY <1>4, <2>1, <2>2, DocumentTyped DEF Respond
  <2>4. locale' \in Locales /\ shown' \in Locales
    BY <1>4, PreferredTyped DEF Respond
  <2>5. cookie' \in Remembered
    BY <1>4, <2>1, SyncedTyped DEF Respond
  <2> QED BY <1>4, <2>3, <2>4, <2>5 DEF Respond
<1>5. ASSUME NEW p \in Pages, NEW l \in Locales, FollowByPath(p, l)
      PROVE  TypeInv'
  BY <1>5, <1>c, LinkByPathTyped, PromiseTyped, FollowTyped DEF FollowByPath
<1>6. ASSUME NEW p \in Pages, NEW l \in Locales, FollowByName(p, l)
      PROVE  TypeInv'
  <2>1. localeRouteByName(o, p, l, tab.path) \in Paths
    BY <1>6, <1>c, TabTyped, LinkByNameTyped DEF FollowByName
  <2> QED BY <1>6, <2>1, PromiseTyped, FollowTyped DEF FollowByName
<1>7. ASSUME NEW p \in Pages, FollowRaw(p)
      PROVE  TypeInv'
  BY <1>7, <1>d, FollowTyped DEF FollowRaw
<1>8. ASSUME NEW l \in Locales, SwitchLocale(l)
      PROVE  TypeInv'
  <2> DEFINE target == switchTarget(l)
             name   == switchLocaleName(o, baseName(l), l)
  <2>1. tab.page \in Pages /\ tab.path \in Paths
    BY <1>8, TabTyped DEF SwitchLocale, OnPage
  <2>2. target \in Paths \union {NoPath}
    BY <1>c, <2>1, SwitchTyped DEF switchTarget
  <2>3. going' = NoTarget \/ \E n \in Names : target # NoPath /\ Push(target, n)
    <3>1. CASE target = NoPath \/ target = tab.path
      BY <1>8, <3>1 DEF SwitchLocale
    <3>2. CASE ~(target = NoPath \/ target = tab.path)
      <4>1. Push(target, IF hasRoute(o, name) THEN name ELSE NoName)
        BY <1>8, <3>2 DEF SwitchLocale
      <4>2. hasRoute(o, name) => name \in Names
        BY <1>c, TableShape DEF hasRoute
      <4> QED BY <1>e, <3>2, <4>1, <4>2
    <3> QED BY <3>1, <3>2
  <2>4. going' \in Targets \union {NoTarget}
    BY <2>2, <2>3, PushTyped
  <2>5. aim' \in Aims \union {NoAim}
    BY <1>8, <2>1, PromiseTyped DEF SwitchLocale
  <2>6. cookie' \in Remembered
    BY <1>8 DEF SwitchLocale, setCookie, Remembered
  <2> QED BY <1>8, <2>4, <2>5, <2>6 DEF SwitchLocale
<1>9. CASE RedirectNavigation
  <2>1. going.path \in Paths
    BY <1>9, GoingTyped DEF RedirectNavigation, Navigating
  <2>2. routeLocale \in Locales /\ DefaultLocale \in Locales
    BY <1>c, <2>1, CurrentTyped, RouteGenerationAssumption
       DEF routeLocale, RouteGenerationAssumption
  <2>3. clientRedirect \in Paths
    BY <1>9, <2>1, <2>2, RedirectTyped DEF RedirectNavigation, clientRedirect, gated
  <2>4. going' \in Targets
    BY <1>9, <1>e, <2>3, PushTyped DEF RedirectNavigation
  <2> QED BY <1>9, <2>4 DEF RedirectNavigation
<1>10. CASE Duplicate
  BY <1>10 DEF Duplicate
<1>11. CASE Arrive
  <2> DEFINE name == IF going.name # NoName THEN going.name ELSE NameAt(going.path)
  <2>1. going.path \in Paths /\ going.name \in Names
    BY <1>11, GoingTyped DEF Arrive, Navigating
  <2>2. name \in Names
    BY <2>1, NameTyped
  <2>3. tab' = Document(going.path, name)
    BY <1>11 DEF Arrive
  <2> HIDE DEF name
  <2>4. /\ tab' \in [path : Paths, name : Names, page : Pages \union {NoPage},
                     status : {"blank", "page", "error"}]
        /\ tab'.status = "page" => tab'.page \in Pages
    BY <2>1, <2>2, <2>3, DocumentTyped
  <2>5. routeLocale \in Locales
    BY <1>c, <2>1, CurrentTyped DEF routeLocale
  <2>6. cookie' \in Remembered
    BY <1>11, <2>5 DEF Arrive, setCookie, Remembered
  <2> QED BY <1>11, <2>4, <2>5, <2>6 DEF Arrive
<1>12. CASE UNCHANGED vars
  BY <1>12 DEF vars
<1> QED BY <1>1, <1>2, <1>3, <1>4, <1>5, <1>6, <1>7, <1>8, <1>9, <1>10, <1>11, <1>12 DEF Next

LEMMA TypeInit == Init => TypeInv
<1>1. Bare(Index) \in Paths /\ NoName \in Names
  BY BareTyped, RouteGenerationAssumption DEF RouteGenerationAssumption, Names
<1> QED BY <1>1 DEF Init, TypeInv, TypeOK, Blank

\* Every variable has its type: what a cookie, a query or a header holds never
\* becomes a locale of the application unless it is an enabled one, and every
\* redirect, link and switch of the locale leads to a path the router can read.
THEOREM TypeCorrect == Spec => []TypeOK
<1>1. TypeInv => TypeOK
  BY DEF TypeInv
<1> QED BY <1>1, TypeInit, TypeStep, PTL DEF Spec

-----------------------------------------------------------------------------
(* What the server redirects to.                                           *)

LEMMA RecordsLead ==
  ASSUME NEW c \in Configs, NEW path \in Paths, NEW r \in Match(c, path), r.redirect # NoPath
  PROVE  /\ c.strategy = "prefix" /\ path.locale = NoLocale
         /\ r.redirect \in Paths /\ r.redirect.locale = DefaultLocale
<1>1. /\ r \in RouteTable(c)
      /\ IF path.locale = NoLocale THEN r.accepts = {} ELSE path.locale \in r.accepts
  BY DEF Match
<1>2. RouteTyped(c, r)
  BY <1>1, TableTyped
<1> QED BY <1>1, <1>2 DEF RouteTyped

LEMMA ResolvedTwice ==
  ASSUME NEW c \in Configs, NEW rest \in Slugs, NEW l \in Locales
  PROVE  LET x == resolvePathForLocale(c, rest, l)
         IN  x \in Slugs /\ resolvePathForLocale(c, x, l) = x
<1>1. CASE rest \notin Pages
  BY <1>1 DEF resolvePathForLocale
<1>2. CASE rest \in Pages
  <2>1. restFor(c, rest, l) \in Slugs
    BY <1>2, RestTyped
  <2>2. restFor(c, rest, l) \in Pages => restFor(c, rest, l) = rest
    BY <1>2, OptionsTyped DEF restFor, isCustom
  <2> QED BY <1>2, <2>1, <2>2 DEF resolvePathForLocale
<1> QED BY <1>1, <1>2

LEMMA PathIs ==
  ASSUME NEW path \in Paths
  PROVE  /\ path.locale = NoLocale => path = Bare(path.rest)
         /\ path.locale # NoLocale => path = Prefixed(path.locale, path.rest)
  BY DEF Paths, Bare, Prefixed

\* getClientRedirect acts on paths without a prefix only.
LEMMA ClientRedirectFrom ==
  ASSUME NEW c \in Configs, NEW path \in Paths, NEW l \in Locales,
         getClientRedirect(c, path, l) # NoPath
  PROVE  LET x == resolvePathForLocale(c, path.rest, l)
         IN  /\ path.locale = NoLocale
             /\ getClientRedirect(c, path, l) # path
             /\ \/ c.strategy = "prefix" /\ getClientRedirect(c, path, l) = Prefixed(l, x)
                \/ /\ c.strategy = "prefix_except_default" /\ l # DefaultLocale
                   /\ getClientRedirect(c, path, l) = Prefixed(l, x)
                \/ /\ c.strategy = "prefix_except_default" /\ l = DefaultLocale
                   /\ getClientRedirect(c, path, l) = Bare(x) /\ x # path.rest
<1> DEFINE x == resolvePathForLocale(c, path.rest, l)
<1>1. /\ path.locale = NoLocale /\ c.strategy \in {"prefix", "prefix_except_default"}
      /\ getClientRedirect(c, path, l) = buildLocalizedPath(c, x, l)
      /\ buildLocalizedPath(c, x, l) # path
  BY DEF getClientRedirect, When
<1> HIDE DEF x
<1>2. CASE c.strategy = "prefix"
  BY <1>1, <1>2 DEF buildLocalizedPath, shouldHavePrefix, x
<1>3. CASE c.strategy = "prefix_except_default" /\ l # DefaultLocale
  BY <1>1, <1>3 DEF buildLocalizedPath, shouldHavePrefix, x
<1>4. CASE c.strategy = "prefix_except_default" /\ l = DefaultLocale
  <2>1. buildLocalizedPath(c, x, l) = Bare(x)
    BY <1>4 DEF buildLocalizedPath, shouldHavePrefix
  <2>2. path = Bare(path.rest)
    BY <1>1, PathIs
  <2> QED BY <1>1, <1>4, <2>1, <2>2 DEF x
<1> QED BY <1>1, <1>2, <1>3, <1>4

LEMMA FirstIsFirst ==
  ASSUME NEW c, NEW l \in Locales, NEW a
  PROVE  firstValid(c, <<l>>, a) = l
<1> DEFINE valid == {i \in DOMAIN <<l>> : <<l>>[i] \in Locales}
           best  == CHOOSE i \in valid : \A j \in valid : i <= j
<1>1. valid = {1}
  OBVIOUS
<1>2. best = 1
  BY <1>1
<1>3. firstValid(c, <<l>>, a) =
        applyAutoDetectLanguage(c, IF valid = {} THEN DefaultLocale ELSE <<l>>[best],
                                valid # {}, a)
  BY DEF firstValid
<1> HIDE DEF best
<1> QED BY <1>1, <1>2, <1>3 DEF applyAutoDetectLanguage

\* The preferred locale of a request under "*": the cookie's, the header's or
\* the default for a prefixed path, the default for any other.
LEMMA PreferredUnderStar ==
  ASSUME TypeInv, NEW req, o.autoDetectPath = "*"
  PROVE  /\ req.path.locale = NoLocale => preferredLocale(req) = DefaultLocale
         /\ req.path.locale # NoLocale =>
              preferredLocale(req) = firstValid(o, <<ReadCookie>>, accept)
  BY DEF preferredLocale, gated, resolvePreferredLocale

\* One redirect is a record's, the rewrite of "*" or getClientRedirect's.
LEMMA ServerTargetIs ==
  ASSUME TypeInv, NEW req, req.path \in Paths, NEW t \in ServerTargets(req)
  PROVE  LET l == preferredLocale(req)
         IN  \/ /\ o.strategy = "prefix" /\ req.path.locale = NoLocale
                /\ t \in Paths /\ t.locale = DefaultLocale
             \/ /\ o.redirects /\ t = starRewrite(req.path, l) /\ t # NoPath
             \/ /\ o.redirects /\ starRewrite(req.path, l) = NoPath
                /\ t = getClientRedirect(o, req.path, l) /\ t # NoPath
<1>1. CASE t \in RecordTargets(req.path)
  <2>1. PICK r \in Match(o, req.path) : r.redirect # NoPath /\ t = r.redirect
    BY <1>1 DEF RecordTargets
  <2>2. o \in Configs
    BY DEF TypeInv, TypeOK
  <2> QED BY <2>1, <2>2, RecordsLead
<1>2. CASE t = redirectFrom(req.path, preferredLocale(req)) /\ t # NoPath
  BY <1>2 DEF redirectFrom, ??
<1> QED BY <1>1, <1>2 DEF ServerTargets

\* A path nothing redirects any more: it has a prefix the rewrite of "*" leaves
\* alone, or it is the path of the default locale it resolves to.
Rests(path, l) ==
  \/ path.locale # NoLocale /\ (o.autoDetectPath = "*" => l = path.locale)
  \/ /\ path.locale = NoLocale /\ o.strategy = "prefix_except_default"
     /\ l = DefaultLocale
     /\ resolvePathForLocale(o, path.rest, DefaultLocale) = path.rest

LEMMA RestsNowhere ==
  ASSUME o \in Configs, NEW path \in Paths, NEW l \in Locales, Rests(path, l)
  PROVE  RecordTargets(path) = {} /\ redirectFrom(path, l) = NoPath
<1>1. RecordTargets(path) = {}
  BY RecordsLead DEF RecordTargets, Rests
<1>2. starRewrite(path, l) = NoPath
  BY DEF starRewrite, When, Rests
<1>3. getClientRedirect(o, path, l) = NoPath
  <2> SUFFICES ASSUME getClientRedirect(o, path, l) # NoPath PROVE FALSE
    OBVIOUS
  <2> QED BY ClientRedirectFrom DEF Rests
<1> QED BY <1>1, <1>2, <1>3 DEF redirectFrom, ??

-----------------------------------------------------------------------------
(* Redirects settle.  After two redirects by the server the request rests; *)
(* after one it rests, or it is a prefixed path under "prefix" (which the  *)
(* rewrite of "*" may still change) or one without a prefix that "*" or    *)
(* its custom path has brought to the default locale.  The client's second *)
(* redirect never comes.                                                   *)

Nearly(req) ==
  \/ Rests(req.path, preferredLocale(req))
  \/ req.path.locale # NoLocale /\ o.strategy = "prefix"
  \/ /\ req.path.locale = NoLocale /\ o.strategy = "prefix_except_default"
     /\ \/ o.autoDetectPath = "*"
        \/ resolvePathForLocale(o, req.path.rest, DefaultLocale) = req.path.rest

SettleInv ==
  /\ hops \in {0, 1, 2}
  /\ Requested /\ hops = 1 => Nearly(going)
  /\ Requested /\ hops = 2 => Rests(going.path, preferredLocale(going))
  /\ Navigating /\ hops # 0 => Rests(going.path, gated(going.path, routeLocale))

\* The rewrite of "*" to a prefix leads to a path that rests, since the cookie
\* now holds that locale, or is not read at all.
LEMMA RewriteRests ==
  ASSUME TypeInv, RespondRedirect, o.redirects, o.autoDetectPath = "*",
         starRewrite(going.path, preferredLocale(going)) # NoPath,
         going' = [going EXCEPT !.path = Prefixed(preferredLocale(going), going.path.rest)]
  PROVE  Rests(going.path, preferredLocale(going))'
<1> DEFINE l == preferredLocale(going)
<1>1. /\ going \in Targets /\ going.path \in Paths /\ going.path.rest \in Slugs
      /\ going.path.locale # NoLocale /\ l \in Locales
  BY GoingTyped, PathTyped, PreferredTyped DEF RespondRedirect, Requested, starRewrite, When
<1>2. going'.path = Prefixed(l, going.path.rest) /\ going'.path.locale = l /\ l # NoLocale
  <2>1. going'.path = Prefixed(l, going.path.rest)
    BY <1>1 DEF Targets
  <2> QED BY <1>1, <2>1, PrefixedTyped, RouteGenerationAssumption DEF RouteGenerationAssumption
<1>3. o' = o /\ accept' = accept
  BY DEF RespondRedirect
<1>4. l = firstValid(o, <<ReadCookie>>, accept)
  BY <1>1, PreferredUnderStar
<1>5. cookie' = setCookie(l)
  BY DEF RespondRedirect, syncedCookie
<1>6. firstValid(o, <<ReadCookie'>>, accept) = l
  <2>1. CASE o.localeCookie
    <3>1. ReadCookie' = l
      BY <1>3, <1>5, <2>1 DEF ReadCookie, setCookie
    <3> QED BY <1>1, <3>1, FirstIsFirst
  <2>2. CASE ~o.localeCookie
    <3>1. ReadCookie' = NoLocale /\ ReadCookie = NoLocale
      BY <1>3, <2>2 DEF ReadCookie
    <3> QED BY <1>4, <3>1
  <2> QED BY <2>1, <2>2
<1> HIDE DEF l
<1>7. preferredLocale(going)' = l
  BY <1>2, <1>3, <1>6 DEF preferredLocale, gated, resolvePreferredLocale
<1> QED BY <1>2, <1>3, <1>7 DEF Rests

LEMMA ServerSettles ==
  ASSUME TypeInv, SettleInv, RespondRedirect
  PROVE  SettleInv'
<1> DEFINE l == preferredLocale(going)
<1>1. /\ o \in Configs /\ o' = o /\ accept' = accept /\ hops' = hops + 1
      /\ going # NoTarget /\ going.by = "server" /\ Requested
  BY DEF RespondRedirect, Requested, TypeInv, TypeOK
<1>2. going \in Targets /\ going.path \in Paths /\ going.path.rest \in Slugs /\ l \in Locales
  BY <1>1, GoingTyped, PathTyped, PreferredTyped
<1>3. PICK t \in ServerTargets(going) : going' = [going EXCEPT !.path = t]
  BY DEF RespondRedirect
<1>4. going'.path = t /\ ~Navigating'
  BY <1>1, <1>2, <1>3 DEF Targets, Navigating
<1>5. ~Rests(going.path, l)
  <2> SUFFICES ASSUME Rests(going.path, l) PROVE FALSE
    OBVIOUS
  <2> QED BY <1>1, <1>2, <1>3, RestsNowhere DEF ServerTargets
<1>6. hops = 0 \/ (hops = 1 /\ Nearly(going))
  BY <1>1, <1>5 DEF SettleInv
<1>7. SUFFICES /\ Nearly(going)'
               /\ hops = 1 => Rests(going.path, preferredLocale(going))'
  BY <1>1, <1>4, <1>6 DEF SettleInv
<1>8. CASE /\ o.strategy = "prefix" /\ going.path.locale = NoLocale
           /\ t \in Paths /\ t.locale = DefaultLocale
  <2>1. DefaultLocale # NoLocale
    BY RouteGenerationAssumption DEF RouteGenerationAssumption
  <2>2. Nearly(going)'
    BY <1>1, <1>4, <1>8, <2>1 DEF Nearly
  <2>3. hops = 0
    BY <1>5, <1>6, <1>8 DEF Nearly
  <2> QED BY <2>2, <2>3
<1>9. CASE o.redirects /\ t = starRewrite(going.path, l) /\ t # NoPath
  <2>1. o.autoDetectPath = "*" /\ going.path.locale # NoLocale
    BY <1>9 DEF starRewrite, When
  <2>2. CASE t = Prefixed(l, going.path.rest)
    <3>1. Rests(going.path, preferredLocale(going))'
      BY <1>3, <1>9, <2>1, <2>2, RewriteRests
    <3> QED BY <3>1 DEF Nearly
  <2>3. CASE t # Prefixed(l, going.path.rest)
    <3>1. t = Bare(going.path.rest) /\ o.strategy = "prefix_except_default"
      BY <1>9, <2>1, <2>3 DEF starRewrite, When
    <3>2. Nearly(going)'
      BY <1>1, <1>2, <1>4, <2>1, <3>1, BareTyped DEF Nearly
    <3>3. hops = 0
      BY <1>5, <1>6, <2>1, <3>1 DEF Nearly
    <3> QED BY <3>2, <3>3
  <2> QED BY <2>2, <2>3
<1>10. CASE o.redirects /\ t = getClientRedirect(o, going.path, l) /\ t # NoPath
  <2> DEFINE x == resolvePathForLocale(o, going.path.rest, l)
  <2>1. /\ going.path.locale = NoLocale
        /\ \/ o.strategy = "prefix" /\ t = Prefixed(l, x)
           \/ o.strategy = "prefix_except_default" /\ l # DefaultLocale /\ t = Prefixed(l, x)
           \/ /\ o.strategy = "prefix_except_default" /\ l = DefaultLocale
              /\ t = Bare(x) /\ x # going.path.rest
    BY <1>1, <1>2, <1>10, ClientRedirectFrom
  <2>2. x \in Slugs /\ resolvePathForLocale(o, x, l) = x
    BY <1>1, <1>2, ResolvedTwice
  <2> HIDE DEF x
  <2>3. l # NoLocale
    BY <1>2, RouteGenerationAssumption DEF RouteGenerationAssumption
  <2>4. o.autoDetectPath = "*" => l = DefaultLocale
    BY <2>1, PreferredUnderStar
  <2>5. CASE o.strategy = "prefix" /\ t = Prefixed(l, x)
    <3>1. Nearly(going)'
      BY <1>1, <1>2, <1>4, <2>2, <2>3, <2>5, PrefixedTyped DEF Nearly
    <3>2. hops = 0
      BY <1>5, <1>6, <2>1, <2>5 DEF Nearly
    <3> QED BY <3>1, <3>2
  <2>6. CASE o.strategy = "prefix_except_default" /\ l # DefaultLocale /\ t = Prefixed(l, x)
    <3>1. Rests(going.path, preferredLocale(going))'
      BY <1>1, <1>2, <1>4, <2>2, <2>3, <2>4, <2>6, PrefixedTyped DEF Rests
    <3> QED BY <3>1 DEF Nearly
  <2>7. CASE /\ o.strategy = "prefix_except_default" /\ l = DefaultLocale
             /\ t = Bare(x) /\ x # going.path.rest
    <3>1. t.locale = NoLocale /\ t.rest = x
      BY <2>2, <2>7, BareTyped
    <3>2. Nearly(going)'
      BY <1>1, <1>4, <2>2, <2>7, <3>1 DEF Nearly
    <3>3. ASSUME hops = 1
          PROVE  Rests(going.path, preferredLocale(going))'
      <4>1. o.autoDetectPath = "*"
        BY <1>5, <1>6, <2>1, <2>7, <3>3 DEF Nearly, x
      <4>2. preferredLocale(going)' = DefaultLocale
        BY <1>1, <1>4, <3>1, <4>1 DEF preferredLocale, gated
      <4> QED BY <1>1, <1>4, <2>2, <2>7, <3>1, <4>2 DEF Rests
    <3> QED BY <3>2, <3>3
  <2> QED BY <2>1, <2>5, <2>6, <2>7
<1> QED BY <1>2, <1>3, <1>8, <1>9, <1>10, ServerTargetIs

LEMMA ClientSettles ==
  ASSUME TypeInv, SettleInv, RedirectNavigation
  PROVE  SettleInv'
<1> DEFINE path == going.path
           l    == gated(path, routeLocale)
           t    == redirectFrom(path, l)
<1>1. /\ o \in Configs /\ o' = o /\ locale' = locale /\ hops' = hops + 1
      /\ locale \in Locales \union {NoLocale}
      /\ Navigating /\ Push(t, NoName) /\ t # NoPath
  BY DEF RedirectNavigation, clientRedirect, TypeInv, TypeOK
<1>2. path \in Paths /\ path.rest \in Slugs
  BY <1>1, GoingTyped, PathTyped DEF Navigating
<1>3. DefaultLocale \in Locales /\ NoLocale \notin Locales
  BY RouteGenerationAssumption DEF RouteGenerationAssumption
<1>4. routeLocale \in Locales /\ l \in Locales
  BY <1>1, <1>2, <1>3, CurrentTyped DEF routeLocale, gated
<1>5. ~Rests(path, l)
  BY <1>1, <1>2, <1>4, RestsNowhere
<1>6. hops = 0
  BY <1>1, <1>5 DEF SettleInv
<1>7. t \in Paths
  BY <1>1, <1>2, <1>4, RedirectTyped
<1> HIDE DEF t
<1>8. going'.by = "client" /\ (RecordTargets(t) = {} => going'.path = t)
  BY <1>1 DEF Push
<1>9. SUFFICES Rests(going.path, gated(going.path, routeLocale))'
  BY <1>1, <1>6, <1>8 DEF SettleInv, Requested
<1>10. \/ o.autoDetectPath = "*" /\ t = starRewrite(path, l)
       \/ t = getClientRedirect(o, path, l)
  BY <1>1 DEF t, redirectFrom, starRewrite, When, ??
<1>11. CASE o.autoDetectPath = "*" /\ t = starRewrite(path, l)
  <2>1. path.locale # NoLocale /\ path.locale # l /\ l = routeLocale
    BY <1>1, <1>11 DEF starRewrite, When, gated
  <2>2. o.strategy = "no_prefix"
    BY <1>1, <2>1, OptionsTyped DEF routeLocale, getCurrentLocale, Strategies
  <2>3. t = Prefixed(l, path.rest) /\ t.locale = l
    BY <1>1, <1>2, <1>4, <1>11, <2>1, <2>2, PrefixedTyped DEF starRewrite, When
  <2>4. RecordTargets(t) = {}
    BY <1>1, <1>7, <2>2, RecordsLead DEF RecordTargets
  <2>5. routeLocale' = routeLocale
    BY <1>1, <2>2 DEF routeLocale, getCurrentLocale
  <2>6. going'.path = t
    BY <1>8, <2>4
  <2>7. gated(going.path, routeLocale)' = l
    BY <1>1, <1>3, <1>4, <2>1, <2>3, <2>5, <2>6 DEF gated
  <2> QED BY <1>1, <1>3, <1>4, <2>3, <2>6, <2>7 DEF Rests
<1>12. CASE t = getClientRedirect(o, path, l)
  <2> DEFINE x == resolvePathForLocale(o, path.rest, l)
  <2>1. /\ path.locale = NoLocale
        /\ \/ o.strategy = "prefix" /\ t = Prefixed(l, x)
           \/ o.strategy = "prefix_except_default" /\ l # DefaultLocale /\ t = Prefixed(l, x)
           \/ o.strategy = "prefix_except_default" /\ l = DefaultLocale /\ t = Bare(x)
    BY <1>1, <1>2, <1>4, <1>12, ClientRedirectFrom
  <2>2. x \in Slugs /\ resolvePathForLocale(o, x, l) = x
    BY <1>1, <1>2, <1>4, ResolvedTwice
  <2> HIDE DEF x
  <2>3. o.strategy = "prefix_except_default" => l = DefaultLocale
    BY <2>1 DEF routeLocale, getCurrentLocale, gated
  <2>4. CASE o.strategy = "prefix" /\ t = Prefixed(l, x)
    <3>1. t.locale = l /\ l # NoLocale
      BY <1>3, <1>4, <2>2, <2>4, PrefixedTyped
    <3>2. RecordTargets(t) = {}
      BY <1>1, <1>7, <3>1, RecordsLead DEF RecordTargets
    <3>3. going'.path = t
      BY <1>8, <3>2
    <3>4. routeLocale' = l
      BY <1>1, <2>4, <3>1, <3>3 DEF routeLocale, getCurrentLocale
    <3>5. gated(going.path, routeLocale)' = l
      BY <3>1, <3>3, <3>4 DEF gated
    <3> QED BY <3>1, <3>3, <3>5 DEF Rests
  <2>5. CASE o.strategy = "prefix_except_default" /\ l = DefaultLocale /\ t = Bare(x)
    <3>1. t.locale = NoLocale /\ t.rest = x
      BY <2>2, <2>5, BareTyped
    <3>2. RecordTargets(t) = {}
      BY <1>1, <1>7, <2>5, RecordsLead DEF RecordTargets
    <3>3. going'.path = t
      BY <1>8, <3>2
    <3>4. routeLocale' = DefaultLocale
      BY <1>1, <2>5, <3>1, <3>3 DEF routeLocale, getCurrentLocale
    <3>5. gated(going.path, routeLocale)' = DefaultLocale
      BY <3>4 DEF gated
    <3> QED BY <1>1, <2>2, <2>5, <3>1, <3>3, <3>5 DEF Rests
  <2> QED BY <2>1, <2>3, <2>4, <2>5
<1> QED BY <1>10, <1>11, <1>12

LEMMA SettleStep ==
  ASSUME TypeInv, SettleInv, [Next]_vars
  PROVE  SettleInv'
<1>1. ASSUME NEW path \in Paths, NEW query \in Queries, Enter(path, query)
      PROVE  SettleInv'
  BY <1>1 DEF Enter, SettleInv
<1>2. CASE RespondNotFound
  BY <1>2 DEF RespondNotFound, SettleInv, Requested, Navigating
<1>3. CASE RespondRedirect
  BY <1>3, ServerSettles
<1>4. CASE Respond
  BY <1>4 DEF Respond, SettleInv, Requested, Navigating
<1>5. ASSUME NEW path, NEW promise, Follow(path, promise)
      PROVE  SettleInv'
  BY <1>5 DEF Follow, SettleInv
<1>6. ASSUME NEW l \in Locales, SwitchLocale(l)
      PROVE  SettleInv'
  BY <1>6 DEF SwitchLocale, SettleInv
<1>7. CASE RedirectNavigation
  BY <1>7, ClientSettles
<1>8. CASE Duplicate
  BY <1>8 DEF Duplicate, SettleInv, Requested, Navigating
<1>9. CASE Arrive
  BY <1>9 DEF Arrive, SettleInv, Requested, Navigating
<1>10. CASE UNCHANGED vars
  <2>1. /\ Requested' = Requested /\ Navigating' = Navigating /\ hops' = hops /\ going' = going
        /\ Nearly(going)' = Nearly(going)
        /\ Rests(going.path, preferredLocale(going))' = Rests(going.path, preferredLocale(going))
        /\ Rests(going.path, gated(going.path, routeLocale))'
             = Rests(going.path, gated(going.path, routeLocale))
    BY <1>10 DEF vars, Requested, Navigating, Nearly, Rests, preferredLocale, detected, gated,
                 routeLocale, ReadCookie
  <2> QED BY <2>1 DEF SettleInv
<1>11. CASE \E p \in Pages, l \in Locales : FollowByPath(p, l) \/ FollowByName(p, l)
  BY <1>5, <1>11 DEF FollowByPath, FollowByName
<1>12. CASE \E p \in Pages : FollowRaw(p)
  BY <1>5, <1>12 DEF FollowRaw
<1> QED BY <1>1, <1>2, <1>3, <1>4, <1>6, <1>7, <1>8, <1>9, <1>10, <1>11, <1>12 DEF Next

\* No chain of redirects is longer than two, whatever the options, the custom
\* paths, the cookie and the header are: the server and the client both settle.
THEOREM RedirectsSettled == Spec => []RedirectsSettle
<1>1. Init => SettleInv
  BY DEF Init, SettleInv, Requested, Navigating
<1>2. SettleInv => RedirectsSettle
  BY DEF SettleInv, RedirectsSettle
<1> QED BY <1>1, <1>2, TypeInit, TypeStep, SettleStep, PTL DEF Spec

-----------------------------------------------------------------------------
(* What loading a page leaves behind.  Until the client navigates nothing  *)
(* but the server's answers moves the tab; a request on its way shows      *)
(* nothing yet, and one that began as a deep link is still that one, or is *)
(* for the URL it has in the default locale.                               *)

DeepHome ==
  buildLocalizedPath(o, resolvePathForLocale(o, entered.rest, DefaultLocale), DefaultLocale)

LoadInv ==
  /\ Requested => tab.status = "blank" /\ tab.path.locale = NoLocale
  /\ Navigating => entered = NoPath
  /\ DeepLink /\ Requested => going.path \in {entered, DeepHome}
  /\ DeepLink /\ AtRest =>
       /\ tab.path \in {entered, DeepHome}
       /\ tab.status = "page" /\ tab.path.locale = DefaultLocale =>
            shown = DefaultLocale /\ locale = DefaultLocale
  /\ /\ entered # NoPath /\ tab.status = "page" /\ tab.path.locale # NoLocale
     /\ o.localeCookie /\ ~(o.redirects /\ o.autoDetectPath = "*")
     => cookie = tab.path.locale

\* A redirect record leads to the page's path in the default locale.
LEMMA RecordLeads ==
  ASSUME TypeInv, NEW path \in Paths, NEW t \in RecordTargets(path)
  PROVE  /\ o.strategy = "prefix" /\ path.locale = NoLocale
         /\ t = buildLocalizedPath(o, resolvePathForLocale(o, path.rest, DefaultLocale), DefaultLocale)
<1>1. o \in Configs
  BY DEF TypeInv, TypeOK
<1>2. PICK r \in Match(o, path) : r.redirect # NoPath /\ t = r.redirect
  BY DEF RecordTargets
<1>3. r \in RouteTable(o) /\ r.rest = path.rest
  BY DEF Match
<1>4. Leading(o, r.page, r) /\ r.page \in Pages
  BY <1>1, <1>2, <1>3, ByName DEF Plain, Shared, Named
<1>5. o.strategy = "prefix" /\ path.locale = NoLocale
  BY <1>1, <1>2, RecordsLead
<1>6. resolvePathForLocale(o, path.rest, DefaultLocale) = o.custom[r.page][DefaultLocale]
  BY <1>3, <1>4 DEF Leading, resolvePathForLocale, restFor
<1> QED BY <1>2, <1>4, <1>5, <1>6 DEF Leading, buildLocalizedPath, shouldHavePrefix

\* What redirects a deep link redirects it to its URL in the default locale.
LEMMA DeepRedirect ==
  ASSUME TypeInv, LoadInv, RespondRedirect, DeepLink
  PROVE  going'.path = DeepHome
<1> DEFINE l == preferredLocale(going)
           to(rest) == buildLocalizedPath(o, resolvePathForLocale(o, rest, DefaultLocale), DefaultLocale)
<1>1. /\ o \in Configs /\ going \in Targets /\ going.path \in Paths /\ going.path.rest \in Slugs
      /\ l \in Locales /\ DefaultLocale \in Locales
  BY GoingTyped, PathTyped, PreferredTyped, RouteGenerationAssumption
     DEF RespondRedirect, Requested, TypeInv, TypeOK, RouteGenerationAssumption
<1>2. PICK t \in ServerTargets(going) : going' = [going EXCEPT !.path = t]
  BY DEF RespondRedirect
<1>3. going'.path = t
  BY <1>1, <1>2 DEF Targets
<1>4. /\ o.autoDetectPath = "exact" /\ o.exactPath \in Pages
      /\ entered \in Paths /\ entered.rest # o.exactPath
  BY DEF DeepLink, TypeInv, TypeOK
<1>5. going.path \in {entered, DeepHome}
  BY DEF LoadInv, RespondRedirect
<1> DEFINE x == resolvePathForLocale(o, entered.rest, DefaultLocale)
<1>6. x \in Slugs /\ resolvePathForLocale(o, x, DefaultLocale) = x
  BY <1>1, <1>4, PathTyped, ResolvedTwice
<1>7. DeepHome.rest = x /\ to(entered.rest) = DeepHome
  BY <1>1, <1>6, BareTyped, PrefixedTyped DEF DeepHome, buildLocalizedPath
<1>8. to(going.path.rest) = DeepHome
  BY <1>5, <1>6, <1>7 DEF DeepHome
<1>9. going.path.rest # o.exactPath
  <2>1. x # o.exactPath
    <3> SUFFICES ASSUME x = o.exactPath PROVE FALSE
      OBVIOUS
    <3>1. entered.rest \in Pages /\ x = o.custom[entered.rest][DefaultLocale]
      BY <1>4 DEF resolvePathForLocale, restFor
    <3> QED BY <1>1, <1>4, <3>1, OptionsTyped
  <2> QED BY <1>4, <1>5, <1>7, <2>1
<1> HIDE DEF x
<1>10. CASE t \in RecordTargets(going.path)
  BY <1>1, <1>3, <1>8, <1>10, RecordLeads
<1>11. CASE t \notin RecordTargets(going.path)
  <2>1. starRewrite(going.path, l) = NoPath
    BY <1>4 DEF starRewrite, When
  <2>2. t = getClientRedirect(o, going.path, l) /\ t # NoPath
    BY <1>11, <2>1 DEF ServerTargets, redirectFrom, ??
  <2>3. going.path.locale = NoLocale
    BY <1>1, <2>2, ClientRedirectFrom
  <2>4. going.path # Bare(o.exactPath)
    BY <1>9 DEF Bare
  <2>5. l = DefaultLocale
    BY <1>4, <2>3, <2>4 DEF preferredLocale, gated, shouldAttemptLocaleRedirect
  <2>6. t = to(going.path.rest)
    BY <2>2, <2>5 DEF getClientRedirect, When
  <2> QED BY <1>3, <1>8, <2>6
<1> QED BY <1>10, <1>11

\* The locale of a URL with a prefix is detected, whatever else is remembered.
LEMMA PrefixDetected ==
  ASSUME NEW req, req.path.locale \in Locales
  PROVE  detected(req) = req.path.locale
<1> DEFINE cs == <<req.path.locale, req.query, ReadCookie>>
           valid == {i \in DOMAIN cs : cs[i] \in Locales}
           best  == CHOOSE i \in valid : \A j \in valid : i <= j
<1>1. DOMAIN cs = 1..3 /\ cs[1] = req.path.locale
  OBVIOUS
<1>2. detected(req) = applyAutoDetectLanguage(o, IF valid = {} THEN DefaultLocale ELSE cs[best],
                                              valid # {}, accept)
  BY DEF detected, resolveServerLocale, firstValid
<1> HIDE DEF cs
<1>3. 1 \in valid /\ \A i \in valid : i = 1 \/ i = 2 \/ i = 3
  BY <1>1
<1>4. best = 1
  BY <1>3
<1> HIDE DEF valid, best
<1> QED BY <1>1, <1>2, <1>3, <1>4 DEF applyAutoDetectLanguage

LEMMA LoadStep ==
  ASSUME TypeInv, LoadInv, [Next]_vars
  PROVE  LoadInv'
<1>0. /\ NoLocale \notin Locales /\ DefaultLocale \in Locales /\ Index \in Slugs
      /\ Bare(Index).locale = NoLocale /\ NoPath \notin Paths
  BY BareTyped, RouteGenerationAssumption DEF RouteGenerationAssumption
<1>1. ASSUME NEW path \in Paths, NEW query \in Queries, Enter(path, query)
      PROVE  LoadInv'
  <2>1. /\ tab'.path = Bare(Index) /\ tab'.status = "blank" /\ ~Navigating'
        /\ going'.path = path /\ entered' = path /\ o' = o
    BY <1>1 DEF Enter, Navigating, Blank
  <2>2. ~AtRest'
    <3>1. going' \in Targets
      BY <1>1 DEF Enter, Targets, Names
    <3> QED BY <3>1, RedirectsAssumption DEF AtRest, RedirectsAssumption
  <2> QED BY <1>0, <2>1, <2>2 DEF LoadInv
<1>2. CASE RespondNotFound
  <2>1. /\ tab'.path = going.path /\ tab'.status = "error" /\ ~Requested' /\ ~Navigating'
        /\ (DeepLink' <=> DeepLink) /\ Requested /\ entered' = entered /\ DeepHome' = DeepHome
    <3>1. tab'.path = going.path /\ tab'.status = "error"
      <4>1. \A r \in RouteTable(o) : r.name # NoName
        BY TableShape DEF TypeInv, TypeOK
      <4> QED BY <1>2, <4>1 DEF RespondNotFound, Document
    <3> QED BY <1>2, <3>1 DEF RespondNotFound, Requested, Navigating, DeepLink, DeepHome
  <2> QED BY <2>1 DEF LoadInv
<1>3. CASE RespondRedirect
  <2>1. /\ Requested /\ tab' = tab /\ o' = o /\ (DeepLink' <=> DeepLink)
        /\ entered' = entered /\ DeepHome' = DeepHome
    BY <1>3 DEF RespondRedirect, DeepLink, DeepHome
  <2>2. going \in Targets /\ going' \in Targets /\ going'.by = going.by
    <3>1. PICK x \in ServerTargets(going) : going' = [going EXCEPT !.path = x]
      BY <1>3 DEF RespondRedirect
    <3>2. going \in Targets /\ x \in Paths
      BY <1>3, GoingTyped, ServerTargetsTyped DEF RespondRedirect, Requested
    <3> QED BY <3>1, <3>2 DEF Targets
  <2>3. ~Navigating' /\ ~AtRest'
    BY <2>1, <2>2, RedirectsAssumption DEF Requested, Navigating, AtRest, RedirectsAssumption
  <2> QED BY <1>3, <2>1, <2>3, DeepRedirect DEF LoadInv
<1>4. CASE Respond
  <2>1. /\ tab'.path = going.path /\ ~Requested' /\ ~Navigating' /\ o' = o
        /\ (DeepLink' <=> DeepLink) /\ Requested /\ cookie' = syncedCookie(going)
        /\ entered' = entered /\ DeepHome' = DeepHome
        /\ locale' = detected(going) /\ shown' = detected(going)
    BY <1>4 DEF Respond, Requested, Navigating, DeepLink, DeepHome, Document
  <2>2. /\ o.localeCookie /\ ~(o.redirects /\ o.autoDetectPath = "*")
        /\ going.path.locale # NoLocale
        => syncedCookie(going) = going.path.locale
    BY DEF syncedCookie, setCookie
  <2>3. going.path.locale = DefaultLocale => detected(going) = DefaultLocale
    BY <1>0, PrefixDetected
  <2> QED BY <2>1, <2>2, <2>3 DEF LoadInv
<1>5. ASSUME NEW path, NEW promise, Follow(path, promise)
      PROVE  LoadInv'
  <2>1. going'.by = "client" /\ entered' = NoPath
    BY <1>5 DEF Follow, Push
  <2> QED BY <2>1 DEF LoadInv, Requested, DeepLink
<1>6. ASSUME NEW l \in Locales, SwitchLocale(l)
      PROVE  LoadInv'
  <2>1. (going' = NoTarget \/ going'.by = "client") /\ entered' = NoPath
    BY <1>6 DEF SwitchLocale, Push
  <2> QED BY <2>1 DEF LoadInv, Requested, DeepLink
<1>7. CASE RedirectNavigation
  <2>1. going'.by = "client" /\ entered' = entered /\ entered = NoPath
    BY <1>7 DEF RedirectNavigation, Push, LoadInv
  <2> QED BY <2>1 DEF LoadInv, Requested, DeepLink
<1>8. CASE Duplicate \/ Arrive
  <2>1. going' = NoTarget /\ entered' = entered /\ entered = NoPath
    BY <1>8 DEF Duplicate, Arrive, LoadInv
  <2> QED BY <2>1 DEF LoadInv, Requested, Navigating, DeepLink
<1>9. CASE UNCHANGED vars
  BY <1>9 DEF vars, LoadInv, Requested, Navigating, AtRest, DeepLink, DeepHome
<1>10. CASE \E p \in Pages, l \in Locales : FollowByPath(p, l) \/ FollowByName(p, l)
  BY <1>5, <1>10 DEF FollowByPath, FollowByName
<1>11. CASE \E p \in Pages : FollowRaw(p)
  BY <1>5, <1>11 DEF FollowRaw
<1> QED BY <1>1, <1>2, <1>3, <1>4, <1>6, <1>7, <1>8, <1>9, <1>10, <1>11 DEF Next

LEMMA LoadInit == Init => LoadInv
  BY DEF Init, LoadInv, Requested, Navigating, DeepLink

\* A prefixed page the server answers with is remembered for the next visit.
THEOREM VisitsRemembered == Spec => []VisitRemembered
<1>1. LoadInv => VisitRemembered
  BY DEF LoadInv, VisitRemembered
<1> QED BY <1>1, TypeInit, LoadInit, TypeStep, LoadStep, PTL DEF Spec

\* A deep link that autoDetectPath does not cover stays where it is or ends at
\* its URL in the default locale, whatever the cookie, the header and the query
\* say; and a URL with the default's prefix is shown in the default locale.
THEOREM DeepLinksKept == Spec => []DeepLinksStay
<1>1. LoadInv => DeepLinksStay
  BY DEF LoadInv, DeepLinksStay, DeepHome
<1> QED BY <1>1, TypeInit, LoadInit, TypeStep, LoadStep, PTL DEF Spec

-----------------------------------------------------------------------------
(* The records vue-router keeps: the last added of each name.               *)

\* A record that no other of its page and name outlives is in the table.
LEMMA InTable ==
  ASSUME NEW c \in Configs, NEW p \in Pages, NEW r \in extendPages(c, p),
         \A q \in extendPages(c, p) : q.name = r.name => q.order <= r.order
  PROVE  r \in RouteTable(c)
  BY DEF RouteTable, Kept

LEMMA PlainKept ==
  ASSUME NEW c \in Configs, NEW p \in Pages,
         p \in c.off \/ c.strategy # "prefix",
         p \notin c.off /\ c.strategy = "prefix_except_default" =>
           DefaultLocale \in getAllowedLocales(c, p)
  PROVE  \E r \in RouteTable(c) : r.name = <<p>>
<1>1. \E r \in processPage(c, p) : r.name = <<p>> /\ r.order = 0
  <2>1. originalPage(p).name = <<p>> /\ originalPage(p).order = 0
    BY DEF originalPage, createRoute
  <2>2. CASE p \in c.off
    BY <2>1, <2>2 DEF processPage
  <2>3. CASE p \notin c.off /\ c.strategy = "prefix_except_default"
    <3> DEFINE r == createRoute(<<p>>, p, {}, restFor(c, p, DefaultLocale), 0)
    <3>1. r.name = <<p>> /\ r.order = 0
      BY DEF createRoute
    <3>2. r \in processPage(c, p)
      BY <2>3 DEF processPage, PrefixExceptDefault
    <3> QED
      BY <3>1, <3>2
  <2>4. CASE p \notin c.off /\ c.strategy = "prefix_and_default"
    BY <2>1, <2>4 DEF processPage, PrefixAndDefault
  <2>5. CASE p \notin c.off /\ c.strategy = "no_prefix"
    BY <2>1, <2>5 DEF processPage, NoPrefix
  <2> QED
    BY <2>2, <2>3, <2>4, <2>5, OptionsTyped DEF Strategies
<1>2. PICK r \in processPage(c, p) : r.name = <<p>> /\ r.order = 0
  BY <1>1
<1>3. r \in extendPages(c, p)
  BY <1>2 DEF extendPages, postProcessPrefix
<1>4. \A q \in extendPages(c, p) : q.name = r.name => q.order <= r.order
  BY <1>2, ByNameOfPage DEF Plain
<1> QED
  BY <1>2, <1>3, <1>4, InTable

\* The locales with a route of their own custom path.
HasCustomRoute(c, p, l) ==
  /\ p \notin c.off /\ isCustom(c, p, l) /\ l \in getAllowedLocales(c, p)
  /\ c.strategy = "prefix_except_default" => l # DefaultLocale
  /\ c.strategy = "no_prefix" => c.custom[p][l] # p

LEMMA NamedExists ==
  ASSUME NEW c \in Configs, NEW p \in Pages, NEW l \in Locales, HasCustomRoute(c, p, l)
  PROVE  \E r \in extendPages(c, p) : r.name = <<"localized", p, l>> /\ r.order = position(l)
<1> DEFINE name == <<"localized", p, l>>
<1>1. buildRouteName(p, l, TRUE) = name /\ buildRouteName(p, l, isCustom(c, p, l)) = name
  BY DEF buildRouteName, HasCustomRoute
<1>2. getCustomPathsForPage(c, p) /\ l \in Prefixing(c, p)
  BY DEF getCustomPathsForPage, HasCustomRoute, Prefixing
<1>3. CASE c.strategy = "no_prefix"
  <2> DEFINE r == createRoute(buildRouteName(p, l, TRUE), p, {}, c.custom[p][l], position(l))
  <2>1. r \in processPage(c, p)
    BY <1>3 DEF processPage, NoPrefix, HasCustomRoute
  <2>2. r.name = name /\ r.order = position(l)
    BY <1>1 DEF createRoute
  <2> QED
    BY <1>3, <2>1, <2>2 DEF extendPages
<1>4. CASE c.strategy # "no_prefix"
  <2> DEFINE r == createRoute(buildRouteName(p, l, isCustom(c, p, l)), p, {l},
                              restFor(c, p, l), position(l))
  <2>1. r \in localizedVariants(c, p, Prefixing(c, p))
    BY <1>2 DEF localizedVariants, perLocale
  <2>2. r.name = name /\ r.order = position(l)
    BY <1>1 DEF createRoute
  <2>3. r \in processPage(c, p)
    BY <1>4, <2>1, OptionsTyped
       DEF processPage, Prefix, PrefixExceptDefault, PrefixAndDefault, Prefixing, Strategies,
           HasCustomRoute
  <2> QED
    BY <2>2, <2>3 DEF extendPages, postProcessPrefix
<1> QED
  BY <1>3, <1>4

\* Which custom paths have a record in the table, and that it is the one with
\* the locale's prefix.
LEMMA NamedKept ==
  ASSUME NEW c \in Configs, NEW p \in Pages, NEW l \in Locales
  PROVE  /\ hasRoute(c, <<"localized", p, l>>) <=> HasCustomRoute(c, p, l)
         /\ \A r \in RouteTable(c) : r.name = <<"localized", p, l>> =>
              /\ r.page = p /\ r.redirect = NoPath /\ r.rest = c.custom[p][l]
              /\ r.accepts = IF c.strategy = "no_prefix" THEN {} ELSE {l}
<1> DEFINE name == <<"localized", p, l>>
<1>1. position(l) \in Nat /\ position(l) > 1
  BY PositionOf
<1>2. ASSUME HasCustomRoute(c, p, l)
      PROVE  hasRoute(c, name)
  <2>1. PICK r \in extendPages(c, p) : r.name = name /\ r.order = position(l)
    BY <1>2, NamedExists
  <2>2. \A q \in extendPages(c, p) : q.name = r.name => q.order <= r.order
    BY <1>1, <2>1, ByNameOfPage DEF Named
  <2> QED
    BY <2>1, <2>2, InTable DEF hasRoute
<1>3. ASSUME NEW r \in RouteTable(c), r.name = name
      PROVE  /\ r.page = p /\ r.redirect = NoPath /\ r.rest = c.custom[p][l]
             /\ r.accepts = IF c.strategy = "no_prefix" THEN {} ELSE {l}
             /\ HasCustomRoute(c, p, l)
  <2>1. r.page = p /\ Named(c, p, l, r) /\ r \in Kept(extendPages(c, p))
    BY <1>3, ByName
  <2>2. HasCustomRoute(c, p, l)
    BY <2>1 DEF Named, HasCustomRoute
  <2>3. PICK q \in extendPages(c, p) : q.name = name /\ q.order = position(l)
    BY <2>2, NamedExists
  <2>4. position(l) <= r.order
    BY <1>3, <2>1, <2>3 DEF Kept
  <2>5. r.order # 1
    BY <1>1, <2>4
  <2> QED
    BY <2>1, <2>2, <2>5 DEF Named
<1> QED
  BY <1>2, <1>3 DEF hasRoute

\* The locales without a custom path share one name, and the router keeps one
\* record of it: the only one, if l alone has none or if no locale has one.
LEMMA SharedKept ==
  ASSUME NEW c \in Configs, NEW p \in Pages \ c.off, c.strategy # "no_prefix",
         NEW l \in Prefixing(c, p), ~isCustom(c, p, l),
         getCustomPathsForPage(c, p) => \A k \in Prefixing(c, p) \ {l} : isCustom(c, p, k)
  PROVE  \E r \in RouteTable(c) : r.name = <<"localized", p>> /\ l \in r.accepts
<1> DEFINE name == <<"localized", p>>
<1>0. Prefixing(c, p) \subseteq Locales /\ l \in Locales
  BY OptionsTyped DEF Prefixing, getAllowedLocales
<1>1. \E r \in localizedVariants(c, p, Prefixing(c, p)) :
        /\ r.name = name /\ l \in r.accepts
        /\ r.order = IF getCustomPathsForPage(c, p) THEN position(l) ELSE 2
  <2>1. CASE getCustomPathsForPage(c, p)
    <3> DEFINE r == createRoute(buildRouteName(p, l, isCustom(c, p, l)), p, {l},
                                restFor(c, p, l), position(l))
    <3>1. r \in localizedVariants(c, p, Prefixing(c, p))
      BY <2>1 DEF localizedVariants, perLocale
    <3>2. r.name = name /\ l \in r.accepts /\ r.order = position(l)
      BY DEF createRoute, buildRouteName
    <3> QED
      BY <2>1, <3>1, <3>2
  <2>2. CASE ~getCustomPathsForPage(c, p)
    BY <2>2 DEF localizedVariants, createRoute
  <2> QED
    BY <2>1, <2>2
<1>2. PICK r \in localizedVariants(c, p, Prefixing(c, p)) :
        /\ r.name = name /\ l \in r.accepts
        /\ r.order = IF getCustomPathsForPage(c, p) THEN position(l) ELSE 2
  BY <1>1
<1>3. r \in extendPages(c, p)
  BY <1>2, OptionsTyped
     DEF extendPages, postProcessPrefix, processPage, Prefix, PrefixExceptDefault,
         PrefixAndDefault, Prefixing, Strategies
<1>4. ASSUME NEW q \in extendPages(c, p), q.name = r.name
      PROVE  q.order <= r.order
  <2>1. Shared(c, p, q)
    BY <1>2, <1>4, ByNameOfPage
  <2>2. CASE getCustomPathsForPage(c, p)
    <3>1. q.order = position(l) /\ r.order = position(l)
      BY <1>2, <2>1, <2>2 DEF Shared
    <3> QED
      BY <1>0, <3>1, PositionOf
  <2>3. CASE ~getCustomPathsForPage(c, p)
    <3>1. r.order = 2
      BY <1>2, <2>3
    <3>2. q.order = 2
      BY <2>1, <2>3 DEF Shared
    <3> QED
      BY <3>1, <3>2
  <2> QED
    BY <2>2, <2>3
<1> QED
  BY <1>2, <1>3, <1>4, InTable

-----------------------------------------------------------------------------
(* The path of a page in a locale it exists in: the table has a record for *)
(* it, it is nobody else's, no 404 and nothing a record redirects.         *)

LEMMA HomeIs ==
  ASSUME NEW c \in Configs, NEW p \in Pages, NEW l \in Locales
  PROVE  /\ resolveLocalizedPath(c, p, l) = buildLocalizedPath(c, restFor(c, p, l), l)
         /\ localeRouteByPath(c, p, l) = resolveLocalizedPath(c, p, l)
         /\ resolveLocalizedPath(c, p, l) \in Paths
         /\ resolveLocalizedPath(c, p, l).rest = restFor(c, p, l)
         /\ resolveLocalizedPath(c, p, l).locale = IF shouldHavePrefix(c, l) THEN l ELSE NoLocale
         /\ isCustom(c, p, l) => restFor(c, p, l) = c.custom[p][l]
         /\ ~isCustom(c, p, l) => restFor(c, p, l) = p
<1>1. resolveLocalizedPath(c, p, l) = buildLocalizedPath(c, restFor(c, p, l), l)
  BY OptionsTyped DEF resolveLocalizedPath, buildLocalizedPath, shouldHavePrefix, Strategies
<1>2. restFor(c, p, l) \in Slugs
  BY RestTyped
<1>3. buildLocalizedPath(c, restFor(c, p, l), l) \in Paths
  BY <1>2, LocalizedTyped
<1>4. p \in Slugs /\ resolvePathForLocale(c, p, l) = restFor(c, p, l)
  BY RouteGenerationAssumption DEF RouteGenerationAssumption, resolvePathForLocale
<1>5. /\ buildLocalizedPath(c, restFor(c, p, l), l).rest = restFor(c, p, l)
      /\ buildLocalizedPath(c, restFor(c, p, l), l).locale = IF shouldHavePrefix(c, l) THEN l ELSE NoLocale
  BY DEF buildLocalizedPath, Prefixed, Bare
<1> QED
  BY <1>1, <1>3, <1>4, <1>5 DEF localeRouteByPath, restFor

\* What Exists says of a page and a locale.
LEMMA ExistsMeans ==
  ASSUME o \in Configs, NEW p \in Pages, NEW l \in Locales, Exists(p, l)
  PROVE  /\ p \notin o.off /\ l \in getAllowedLocales(o, p)
         /\ shouldHavePrefix(o, l) => l \in Prefixing(o, p) /\ o.strategy # "no_prefix"
         /\ o.strategy \in {"prefix", "prefix_and_default"} => shouldHavePrefix(o, l)
         /\ o.strategy = "prefix_except_default" => (shouldHavePrefix(o, l) <=> l # DefaultLocale)
         /\ o.strategy = "no_prefix" => ~shouldHavePrefix(o, l)
         /\ shouldHavePrefix(o, l) /\ ~isCustom(o, p, l) /\ getCustomPathsForPage(o, p) =>
              \A k \in Prefixing(o, p) \ {l} : isCustom(o, p, k)
<1>1. p \notin o.off /\ l \in getAllowedLocales(o, p)
  BY DEF Exists, isLocaleAllowedForUnlocalizedRoute, getAllowedLocales
<1>2. /\ o.strategy \in {"prefix", "prefix_and_default"} => shouldHavePrefix(o, l)
      /\ o.strategy = "prefix_except_default" => (shouldHavePrefix(o, l) <=> l # DefaultLocale)
      /\ o.strategy = "no_prefix" => ~shouldHavePrefix(o, l)
  BY DEF shouldHavePrefix
<1>3. shouldHavePrefix(o, l) => l \in Prefixing(o, p) /\ o.strategy # "no_prefix"
  BY <1>1, <1>2, OptionsTyped DEF Prefixing, Strategies
<1>4. ASSUME shouldHavePrefix(o, l), ~isCustom(o, p, l), getCustomPathsForPage(o, p),
             NEW k \in Prefixing(o, p) \ {l}
      PROVE  isCustom(o, p, k)
  <2>1. k \in Locales \ {l} /\ k \in getAllowedLocales(o, p)
    BY OptionsTyped DEF Prefixing, getAllowedLocales
  <2>2. o.strategy = "prefix_except_default" => k # DefaultLocale
    BY DEF Prefixing
  <2>3. ~(o.strategy = "no_prefix") /\ ~(o.strategy = "prefix_except_default" /\ l = DefaultLocale)
    BY <1>2, <1>4
  <2> QED
    BY <1>4, <2>1, <2>2, <2>3 DEF Exists, HasOwnName, getAllowedLocales
<1> QED
  BY <1>1, <1>2, <1>3, <1>4

\* The build has a record for the path of a page in a locale it exists in.
LEMMA HomeHasRecord ==
  ASSUME o \in Configs, NEW p \in Pages, NEW l \in Locales, Exists(p, l)
  PROVE  LET home == resolveLocalizedPath(o, p, l)
         IN  \E r \in RouteTable(o) :
               /\ r.page = p /\ r.redirect = NoPath /\ r.rest = home.rest
               /\ IF home.locale = NoLocale THEN r.accepts = {} ELSE home.locale \in r.accepts
<1> DEFINE home == resolveLocalizedPath(o, p, l)
<1>1. /\ home.rest = restFor(o, p, l)
      /\ home.locale = IF shouldHavePrefix(o, l) THEN l ELSE NoLocale
      /\ isCustom(o, p, l) => restFor(o, p, l) = o.custom[p][l]
      /\ ~isCustom(o, p, l) => restFor(o, p, l) = p
  BY HomeIs
<1>2. /\ p \notin o.off /\ l \in getAllowedLocales(o, p)
      /\ shouldHavePrefix(o, l) => l \in Prefixing(o, p) /\ o.strategy # "no_prefix"
      /\ o.strategy \in {"prefix", "prefix_and_default"} => shouldHavePrefix(o, l)
      /\ o.strategy = "prefix_except_default" => (shouldHavePrefix(o, l) <=> l # DefaultLocale)
      /\ o.strategy = "no_prefix" => ~shouldHavePrefix(o, l)
  BY ExistsMeans
<1>3. NoLocale \notin Locales
  BY RouteGenerationAssumption DEF RouteGenerationAssumption
<1> HIDE DEF home
<1>4. CASE shouldHavePrefix(o, l) /\ isCustom(o, p, l)
  <2>1. HasCustomRoute(o, p, l)
    BY <1>2, <1>4 DEF HasCustomRoute
  <2>h. hasRoute(o, <<"localized", p, l>>)
    BY <2>1, NamedKept
  <2>2. PICK r \in RouteTable(o) : r.name = <<"localized", p, l>>
    BY <2>h DEF hasRoute
  <2>3. /\ r.page = p /\ r.redirect = NoPath /\ r.rest = o.custom[p][l]
        /\ r.accepts = IF o.strategy = "no_prefix" THEN {} ELSE {l}
    BY <2>2, NamedKept
  <2> QED
    BY <1>1, <1>2, <1>3, <1>4, <2>3 DEF home
<1>5. CASE shouldHavePrefix(o, l) /\ ~isCustom(o, p, l)
  <2>1. PICK r \in RouteTable(o) : r.name = <<"localized", p>> /\ l \in r.accepts
    BY <1>2, <1>5, ExistsMeans, SharedKept
  <2>2. r.page = p /\ Shared(o, p, r)
    BY <2>1, ByName
  <2> QED
    BY <1>1, <1>3, <1>5, <2>1, <2>2 DEF home, Shared
<1>6. CASE o.strategy = "prefix_except_default" /\ l = DefaultLocale
  <2>1. PICK r \in RouteTable(o) : r.name = <<p>>
    BY <1>2, <1>6, PlainKept
  <2>2. r.page = p /\ Plain(o, p, r)
    BY <2>1, ByName
  <2> QED
    BY <1>1, <1>2, <1>3, <1>6, <2>1, <2>2 DEF home, Plain
<1>7. CASE o.strategy = "no_prefix" /\ isCustom(o, p, l) /\ o.custom[p][l] # p
  <2>1. HasCustomRoute(o, p, l)
    BY <1>2, <1>7 DEF HasCustomRoute
  <2>h. hasRoute(o, <<"localized", p, l>>)
    BY <2>1, NamedKept
  <2>2. PICK r \in RouteTable(o) : r.name = <<"localized", p, l>>
    BY <2>h DEF hasRoute
  <2>3. /\ r.page = p /\ r.redirect = NoPath /\ r.rest = o.custom[p][l]
        /\ r.accepts = IF o.strategy = "no_prefix" THEN {} ELSE {l}
    BY <2>2, NamedKept
  <2> QED
    BY <1>1, <1>2, <1>3, <1>7, <2>3 DEF home
<1>8. CASE o.strategy = "no_prefix" /\ ~(isCustom(o, p, l) /\ o.custom[p][l] # p)
  <2>1. PICK r \in RouteTable(o) : r.name = <<p>>
    BY <1>2, <1>8, PlainKept
  <2>2. r.page = p /\ Plain(o, p, r)
    BY <2>1, ByName
  <2> QED
    BY <1>1, <1>2, <1>3, <1>8, <2>1, <2>2 DEF home, Plain
<1> QED
  BY <1>2, <1>4, <1>5, <1>6, <1>7, <1>8, OptionsTyped DEF Strategies

\* A path whose record is one page's is that page's.
LEMMA PageOf ==
  ASSUME o \in Configs, NEW path \in Paths, NEW r \in Match(o, path)
  PROVE  PageAt(path) = r.page
<1>1. matched(path) \in Match(o, path)
  BY MatchedIs
<1>2. matched(path).page = r.page
  BY <1>1, UnambiguousAssumption DEF UnambiguousAssumption
<1> QED
  BY <1>2 DEF PageAt

\* A route of the page has that name.
NamesPage(name, page) == \E r \in RouteTable(o) : r.name = name /\ r.page = page

\* The document reached by a name shows the page of the name.
LEMMA DocumentNamed ==
  ASSUME o \in Configs, NEW path, NEW name, NEW page, NamesPage(name, page)
  PROVE  Document(path, name) =
           [path |-> path, name |-> name, page |-> page, status |-> "page"]
<1> DEFINE pages == {r.page : r \in {r \in RouteTable(o) : r.name = name}}
<1>1. pages = {page}
  BY NamesOnePage DEF NamesPage
<1>2. Document(path, name) =
        [path |-> path, name |-> name,
         page |-> IF pages = {} THEN NoPage ELSE CHOOSE p \in pages : TRUE,
         status |-> IF pages = {} THEN "error" ELSE "page"]
  BY DEF Document
<1> HIDE DEF pages
<1>3. (CHOOSE p \in pages : TRUE) = page
  BY <1>1
<1> QED
  BY <1>1, <1>2, <1>3

\* A document with a page was reached by the page's name.
LEMMA DocumentShows ==
  ASSUME NEW path, NEW name, Document(path, name).status = "page"
  PROVE  NamesPage(name, Document(path, name).page)
<1> DEFINE pages == {r.page : r \in {r \in RouteTable(o) : r.name = name}}
<1>1. Document(path, name) =
        [path |-> path, name |-> name,
         page |-> IF pages = {} THEN NoPage ELSE CHOOSE p \in pages : TRUE,
         status |-> IF pages = {} THEN "error" ELSE "page"]
  BY DEF Document
<1>2. pages # {} /\ Document(path, name).page = (CHOOSE p \in pages : TRUE)
  BY <1>1
<1>3. (CHOOSE p \in pages : TRUE) \in pages
  BY <1>2
<1> QED
  BY <1>2, <1>3 DEF NamesPage

\* And so is the one a path is matched with.
LEMMA NamedAt ==
  ASSUME o \in Configs, NEW path, PageAt(path) # NoPage
  PROVE  NamesPage(NameAt(path), PageAt(path))
  BY MatchedIs DEF PageAt, NameAt, NamesPage

\* The path of a page in a locale it exists in: the page, and no redirect
\* record and no 404.
LEMMA HomeServed ==
  ASSUME o \in Configs, NEW p \in Pages, NEW l \in Locales, Exists(p, l)
  PROVE  LET home == resolveLocalizedPath(o, p, l)
         IN  /\ PageAt(home) = p
             /\ RecordTargets(home) = {}
             /\ ~shouldReturn404(o, home)
<1> DEFINE home == resolveLocalizedPath(o, p, l)
<1>1. /\ home \in Paths /\ home.rest = restFor(o, p, l)
      /\ home.locale = IF shouldHavePrefix(o, l) THEN l ELSE NoLocale
      /\ isCustom(o, p, l) => restFor(o, p, l) = o.custom[p][l]
      /\ ~isCustom(o, p, l) => restFor(o, p, l) = p
  BY HomeIs
<1>2. /\ p \notin o.off /\ l \in getAllowedLocales(o, p)
      /\ o.strategy = "prefix" => shouldHavePrefix(o, l)
      /\ o.strategy = "prefix_except_default" => (shouldHavePrefix(o, l) <=> l # DefaultLocale)
      /\ o.strategy = "no_prefix" => ~shouldHavePrefix(o, l)
  BY ExistsMeans
<1>3. NoLocale \notin Locales /\ o.off \subseteq Pages
  BY RouteGenerationAssumption, OptionsTyped DEF RouteGenerationAssumption
<1>4. PageAt(home) = p
  <2>1. PICK r \in RouteTable(o) :
               /\ r.page = p /\ r.redirect = NoPath /\ r.rest = home.rest
               /\ IF home.locale = NoLocale THEN r.accepts = {} ELSE home.locale \in r.accepts
    BY HomeHasRecord
  <2>2. r \in Match(o, home)
    BY <2>1 DEF Match
  <2> QED
    BY <1>1, <2>1, <2>2, PageOf
<1>5. RecordTargets(home) = {}
  <2> SUFFICES ASSUME NEW r \in Match(o, home), r.redirect # NoPath PROVE FALSE
    BY DEF RecordTargets
  <2>1. o.strategy = "prefix" /\ home.locale = NoLocale
    BY <1>1, RecordsLead
  <2> QED
    BY <1>1, <1>2, <1>3, <2>1
<1>6. home.rest \in Pages => home.rest = p
  BY <1>1, OptionsTyped
<1>7. ~shouldReturn404(o, home)
  <2> SUFFICES ASSUME shouldReturn404(o, home) PROVE FALSE
    OBVIOUS
  <2>1. home.locale = l /\ shouldHavePrefix(o, l)
    BY <1>1 DEF shouldReturn404
  <2>2. home.rest \notin o.off
    BY <1>2, <1>3, <1>6
  <2>3. ~(home.rest \in Pages /\ o.only[home.rest] # {} /\ l \notin o.only[home.rest])
    BY <1>2, <1>6 DEF getAllowedLocales
  <2>4. o.strategy = "prefix_except_default" => home # Prefixed(DefaultLocale, Index)
    BY <1>2, <2>1 DEF Prefixed
  <2> QED
    BY <2>1, <2>2, <2>3, <2>4 DEF shouldReturn404, isUnlocalizedRoute
<1> QED
  BY <1>4, <1>5, <1>7

-----------------------------------------------------------------------------
(* What a static build renders.  Without a cookie and a header the default *)
(* locale is preferred, so that a redirect leads to its path for the page. *)

\* Without a prefix, a query, a cookie or a header the locale is the default.
LEMMA PrerenderedPreferred ==
  ASSUME TypeInv, Prerendering, going.path.locale = NoLocale
  PROVE  preferredLocale(going) = DefaultLocale
<1>1. ReadCookie = NoLocale /\ going.query = NoLocale
  BY DEF Prerendering, ReadCookie
<1>2. NoLocale \notin Locales /\ DefaultLocale \in Locales
  BY RouteGenerationAssumption DEF RouteGenerationAssumption
<1>3. detected(going) = DefaultLocale
  <2> DEFINE none == <<NoLocale, NoLocale, NoLocale>>
             valid == {i \in DOMAIN none : none[i] \in Locales}
  <2>1. valid = {}
    BY <1>2
  <2>2. firstValid(o, none, accept) = applyAutoDetectLanguage(o, DefaultLocale, FALSE, accept)
    BY <2>1 DEF firstValid
  <2>3. detected(going) = firstValid(o, none, accept)
    BY <1>1 DEF detected, resolveServerLocale
  <2> QED
    BY <2>2, <2>3 DEF Prerendering, applyAutoDetectLanguage
<1>4. firstValid(o, <<DefaultLocale, NoLocale>>, accept) = DefaultLocale
  <2> DEFINE pair  == <<DefaultLocale, NoLocale>>
             valid == {i \in DOMAIN pair : pair[i] \in Locales}
             best  == CHOOSE i \in valid : \A j \in valid : i <= j
  <2>1. valid = {1}
    BY <1>2
  <2>2. best = 1
    BY <2>1
  <2>3. firstValid(o, pair, accept) =
          applyAutoDetectLanguage(o, IF valid = {} THEN DefaultLocale ELSE pair[best],
                                  valid # {}, accept)
    BY DEF firstValid
  <2> HIDE DEF best
  <2> QED
    BY <2>1, <2>2, <2>3 DEF applyAutoDetectLanguage
<1>5. firstValid(o, <<NoLocale>>, accept) = DefaultLocale
  <2> DEFINE none == <<NoLocale>>
             valid == {i \in DOMAIN none : none[i] \in Locales}
  <2>1. valid = {}
    BY <1>2
  <2>2. firstValid(o, none, accept) = applyAutoDetectLanguage(o, DefaultLocale, FALSE, accept)
    BY <2>1 DEF firstValid
  <2> QED
    BY <2>2 DEF Prerendering, applyAutoDetectLanguage
<1>6. resolvePreferredLocale(o, detected(going), ReadCookie, accept) = DefaultLocale
  BY <1>1, <1>3, <1>4, <1>5 DEF resolvePreferredLocale
<1> QED
  BY <1>6 DEF preferredLocale, gated

LEMMA PrefixedPrerendered ==
  ASSUME TypeInv, going # NoTarget, going.path.locale # NoLocale,
         going.path \in prerenderRoutes, o.autoDetectPath # "*",
         going.path.rest \notin o.off,
         going.path.rest \in Pages => HasOwnName(going.path.rest, going.path.locale)
  PROVE  /\ ~shouldReturn404(o, going.path)
         /\ ServerTargets(going) = {}
         /\ PageAt(going.path) # NoPage
<1>1. o \in Configs /\ going.path \in Paths
  BY GoingTyped DEF TypeInv, TypeOK
<1>2. \A p : Bare(p).locale = NoLocale
  BY DEF Bare
<1>3. going.path \in localizedRoutes(Pages)
  BY <1>2 DEF prerenderRoutes
<1>4. PICK p \in Pages, l \in Locales :
        going.path = resolveLocalizedPath(o, p, l) /\ isLocaleAllowedForUnlocalizedRoute(o, p, l)
  BY <1>3 DEF localizedRoutes
<1>5. /\ going.path.rest = restFor(o, p, l) /\ going.path.locale = l
      /\ isCustom(o, p, l) => restFor(o, p, l) = o.custom[p][l]
      /\ ~isCustom(o, p, l) => restFor(o, p, l) = p
  BY <1>1, <1>4, HomeIs
<1>6. p \in o.off => ~isCustom(o, p, l)
  BY <1>1, RouteGenerationAssumption DEF RouteGenerationAssumption, isCustom
<1>7. p \notin o.off
  BY <1>5, <1>6
<1>8. HasOwnName(p, l)
  BY <1>1, <1>5, OptionsTyped DEF HasOwnName
<1>9. Exists(p, l)
  BY <1>4, <1>7, <1>8 DEF Exists
<1>10. redirectFrom(going.path, preferredLocale(going)) = NoPath
  BY DEF redirectFrom, starRewrite, getClientRedirect, When, ??
<1>11. /\ PageAt(going.path) = p /\ RecordTargets(going.path) = {}
       /\ ~shouldReturn404(o, going.path)
  BY <1>1, <1>4, <1>9, HomeServed
<1> QED
  BY <1>10, <1>11, RedirectsAssumption DEF RedirectsAssumption, ServerTargets

\* A page's own path is served where the strategy keeps it.
LEMMA OwnPathKept ==
  ASSUME o \in Configs, NEW p \in Pages, o.strategy \in {"no_prefix", "prefix_and_default"} \/ p \in o.off
  PROVE  PageAt(Bare(p)) = p /\ RecordTargets(Bare(p)) = {}
<1>1. Bare(p) \in Paths /\ Bare(p).locale = NoLocale /\ Bare(p).rest = p
  BY BareTyped, RouteGenerationAssumption DEF RouteGenerationAssumption
<1>2. PICK r \in RouteTable(o) : r.name = <<p>>
  BY PlainKept
<1>3. r.page = p /\ Plain(o, p, r)
  BY <1>2, ByName
<1>4. r \in Match(o, Bare(p))
  BY <1>1, <1>3 DEF Match, Plain
<1>5. PageAt(Bare(p)) = p
  BY <1>1, <1>3, <1>4, PageOf
<1>6. RecordTargets(Bare(p)) = {}
  <2> SUFFICES ASSUME NEW q \in Match(o, Bare(p)), q.redirect # NoPath PROVE FALSE
    BY DEF RecordTargets
  <2>1. o.strategy = "prefix"
    BY <1>1, RecordsLead
  <2>2. q \in RouteTable(o) /\ q.rest = p /\ q.page = p
    BY <1>1, <1>3, <1>4, UnambiguousAssumption DEF Match, UnambiguousAssumption
  <2>3. Leading(o, p, q)
    BY <2>2, ByName DEF Plain, Shared, Named
  <2>4. p \in o.off => ~isCustom(o, p, DefaultLocale)
    BY RouteGenerationAssumption DEF RouteGenerationAssumption, isCustom
  <2> QED
    BY <2>1, <2>3, <2>4 DEF Leading
<1> QED
  BY <1>5, <1>6

\* A path no redirect changes.
LEMMA StandsStill ==
  ASSUME NEW path, NEW l, o.autoDetectPath # "*",
         o.strategy \in {"no_prefix", "prefix_and_default"} \/ path.rest \in o.off
  PROVE  redirectFrom(path, l) = NoPath
  BY DEF redirectFrom, starRewrite, getClientRedirect, isUnlocalizedRoute, When, ??

LEMMA BarePrerendered ==
  ASSUME TypeInv, Prerendering, going.path.locale = NoLocale, o.autoDetectPath # "*",
         going.path.rest \notin o.off,
         o.strategy \in {"prefix", "prefix_except_default"} /\ going.path.rest \in Pages =>
           /\ isLocaleAllowedForUnlocalizedRoute(o, going.path.rest, DefaultLocale)
           /\ o.redirects \/ going.path = resolveLocalizedPath(o, going.path.rest, DefaultLocale)
  PROVE  /\ ServerTargets(going) \subseteq prerenderRoutes
         /\ ServerTargets(going) = {} => PageAt(going.path) # NoPage
<1> DEFINE path == going.path
           rest == going.path.rest
           home == resolveLocalizedPath(o, rest, DefaultLocale)
<1>0. NoPage \notin Pages /\ DefaultLocale \in Locales /\ NoLocale \notin Locales /\ Index \in Pages
  BY RedirectsAssumption, RouteGenerationAssumption DEF RedirectsAssumption, RouteGenerationAssumption
<1>1. o \in Configs /\ path \in Paths /\ path \in prerenderRoutes /\ path = Bare(rest)
  BY GoingTyped, PathIs DEF TypeInv, TypeOK, Prerendering, Requested
<1>2. /\ preferredLocale(going) = DefaultLocale
      /\ starRewrite(path, DefaultLocale) = NoPath
  BY PrerenderedPreferred DEF starRewrite, When
<1>3. CASE o.strategy \in {"no_prefix", "prefix_and_default"}
  <2>1. rest \in Pages
    <3>1. CASE \E p \in Pages : path = Bare(p)
      BY <3>1 DEF Bare
    <3>2. CASE path \in localizedRoutes(Pages) /\ o.strategy = "prefix_and_default"
      <4>1. PICK p \in Pages, l \in Locales : path = resolveLocalizedPath(o, p, l)
        BY <3>2 DEF localizedRoutes
      <4>2. path.locale = l
        BY <3>2, <4>1 DEF resolveLocalizedPath, Prefixed
      <4> QED
        BY <1>0, <4>2
    <3> QED
      BY <1>1, <1>3, <3>1, <3>2 DEF prerenderRoutes
  <2>2. PageAt(path) = rest /\ RecordTargets(path) = {}
    BY <1>1, <1>3, <2>1, OwnPathKept
  <2>3. redirectFrom(path, DefaultLocale) = NoPath
    BY <1>3, StandsStill
  <2> QED
    BY <1>0, <1>2, <2>1, <2>2, <2>3 DEF ServerTargets
<1>4. ASSUME rest \in Pages, o.strategy \in {"prefix", "prefix_except_default"}
      PROVE  /\ home = buildLocalizedPath(o, resolvePathForLocale(o, rest, DefaultLocale), DefaultLocale)
             /\ home \in localizedRoutes(Pages)
             /\ redirectFrom(path, DefaultLocale) \in {NoPath, home}
             /\ redirectFrom(path, DefaultLocale) = NoPath => path = home
             /\ o.strategy = "prefix_except_default" => home \in prerenderRoutes
             /\ o.strategy = "prefix_except_default" =>
                  PageAt(home) = rest /\ RecordTargets(home) = {}
  <2>1. home = buildLocalizedPath(o, resolvePathForLocale(o, rest, DefaultLocale), DefaultLocale)
    BY <1>0, <1>1, <1>4, HomeIs DEF localeRouteByPath
  <2>2. home \in localizedRoutes(Pages)
    BY <1>0, <1>4 DEF localizedRoutes
  <2>3. getClientRedirect(o, path, DefaultLocale) = IF home # path THEN home ELSE NoPath
    BY <1>4, <2>1 DEF getClientRedirect, When, isUnlocalizedRoute
  <2>4. /\ redirectFrom(path, DefaultLocale) = IF o.redirects /\ home # path THEN home ELSE NoPath
    BY <1>2, <2>3 DEF redirectFrom, ??
  <2>5. home # NoPath
    BY <1>0, <1>1, <1>4, HomeIs, PathTyped
  <2>6. o.strategy = "prefix_except_default" => Exists(rest, DefaultLocale)
    BY <1>4 DEF Exists, HasOwnName
  <2>7. o.strategy = "prefix_except_default" =>
                  PageAt(home) = rest /\ RecordTargets(home) = {}
    BY <1>0, <1>1, <1>4, <2>6, HomeServed
  <2> QED
    BY <1>4, <2>1, <2>2, <2>4, <2>5, <2>7 DEF prerenderRoutes
<1>5. CASE o.strategy = "prefix"
  <2>1. rest = Index /\ path = Bare(Index)
    BY <1>1, <1>5 DEF prerenderRoutes, Bare
  <2>2. ~isCustom(o, Index, DefaultLocale)
    BY <1>0, <1>1, RouteGenerationAssumption DEF RouteGenerationAssumption, isCustom
  <2>3. home = Prefixed(DefaultLocale, Index)
    BY <1>5, <2>1, <2>2 DEF resolveLocalizedPath, restFor
  <2>4. home \in prerenderRoutes
    BY <1>0, <1>4, <1>5, <2>1, <2>3 DEF prerenderRoutes, Prefixed
  <2>5. home # path
    BY <1>0, <2>3 DEF Prefixed
  <2>6. RecordTargets(path) = {}
    <3> SUFFICES ASSUME NEW q \in Match(o, path), q.redirect # NoPath PROVE FALSE
      BY DEF RecordTargets
    <3>1. q \in RouteTable(o) /\ q.rest = Index
      BY <2>1 DEF Match
    <3>2. Leading(o, q.page, q)
      BY <1>1, <3>1, ByName DEF Plain, Shared, Named
    <3> QED
      BY <2>2, <3>1, <3>2 DEF Leading
  <2> QED
    BY <1>0, <1>2, <1>4, <1>5, <2>1, <2>4, <2>5, <2>6 DEF ServerTargets
<1>6. CASE o.strategy = "prefix_except_default" /\ rest \in Pages
  <2>1. RecordTargets(path) = {}
    BY <1>1, <1>6, RecordsLead DEF RecordTargets
  <2> QED
    BY <1>0, <1>2, <1>4, <1>6, <2>1 DEF ServerTargets
<1>7. CASE o.strategy = "prefix_except_default" /\ rest \notin Pages
  <2>1. path \in localizedRoutes(Pages)
    BY <1>1, <1>7 DEF prerenderRoutes, Bare
  <2>2. PICK p \in Pages, l \in Locales :
          path = resolveLocalizedPath(o, p, l) /\ isLocaleAllowedForUnlocalizedRoute(o, p, l)
    BY <2>1 DEF localizedRoutes
  <2>3. /\ rest = restFor(o, p, l)
        /\ NoLocale = IF shouldHavePrefix(o, l) THEN l ELSE NoLocale
        /\ ~isCustom(o, p, l) => restFor(o, p, l) = p
    BY <1>1, <2>2, HomeIs
  <2>4. l = DefaultLocale /\ isCustom(o, p, l)
    BY <1>0, <1>7, <2>3 DEF shouldHavePrefix
  <2>5. p \notin o.off
    BY <1>1, <2>4, RouteGenerationAssumption DEF RouteGenerationAssumption, isCustom
  <2>6. Exists(p, l)
    BY <2>2, <2>4, <2>5 DEF Exists, HasOwnName
  <2>7. PageAt(path) = p /\ RecordTargets(path) = {}
    BY <1>1, <2>2, <2>6, HomeServed
  <2>8. redirectFrom(path, DefaultLocale) = NoPath
    <3>1. resolvePathForLocale(o, rest, DefaultLocale) = rest
      BY <1>7 DEF resolvePathForLocale
    <3>2. buildLocalizedPath(o, rest, DefaultLocale) = path
      BY <1>1, <1>7 DEF buildLocalizedPath, shouldHavePrefix
    <3>3. getClientRedirect(o, path, DefaultLocale) = NoPath
      BY <3>1, <3>2 DEF getClientRedirect, When
    <3> QED
      BY <1>2, <3>3 DEF redirectFrom, ??
  <2> QED
    BY <1>0, <1>2, <2>7, <2>8 DEF ServerTargets
<1> QED
  BY <1>1, <1>3, <1>5, <1>6, <1>7, OptionsTyped DEF Strategies

\* What a static build renders in advance (the hook prerender:routes of
\* src/module.ts) is served, or redirects to a route that is rendered too.
THEOREM PrerenderingIsClosed == Spec => []PrerenderingCloses
<1>1. TypeInv => PrerenderingCloses
  <2> SUFFICES ASSUME TypeInv, Prerendering, o.autoDetectPath # "*", going.path.rest \notin o.off,
                      IF going.path.locale = NoLocale
                      THEN o.strategy \in {"prefix", "prefix_except_default"}
                             /\ going.path.rest \in Pages =>
                             /\ isLocaleAllowedForUnlocalizedRoute(o, going.path.rest, DefaultLocale)
                             /\ \/ o.redirects
                                \/ going.path = resolveLocalizedPath(o, going.path.rest, DefaultLocale)
                      ELSE going.path.rest \in Pages =>
                             HasOwnName(going.path.rest, going.path.locale)
               PROVE  /\ ~shouldReturn404(o, going.path)
                      /\ ServerTargets(going) \subseteq prerenderRoutes
                      /\ ServerTargets(going) = {} => PageAt(going.path) # NoPage
    BY DEF PrerenderingCloses
  <2>1. going # NoTarget /\ going.path \in prerenderRoutes
    BY DEF Prerendering, Requested
  <2>2. CASE going.path.locale = NoLocale
    <3>1. ~shouldReturn404(o, going.path)
      BY <2>2 DEF shouldReturn404
    <3> QED
      BY <2>2, <3>1, BarePrerendered
  <2>3. CASE going.path.locale # NoLocale
    BY <2>1, <2>3, PrefixedPrerendered
  <2> QED
    BY <2>2, <2>3
<1> QED
  BY <1>1, TypeInit, TypeStep, PTL DEF Spec

-----------------------------------------------------------------------------
(* What names resolve to: switching the locale and a link by the name of a *)
(* page both end at the URL the build has for the page in the locale.      *)

LEMMA ResolveBare ==
  ASSUME NEW c, NEW name, NEW given, NEW here, NEW rest, hasRoute(c, name),
         \A r \in RouteTable(c) : r.name = name => r.rest = rest /\ r.accepts = {}
  PROVE  resolve(c, name, given, here) = Bare(rest)
<1> DEFINE r == CHOOSE r \in RouteTable(c) : r.name = name
<1>1. r \in RouteTable(c) /\ r.name = name
  BY DEF hasRoute
<1>2. r.rest = rest /\ r.accepts = {}
  BY <1>1
<1> QED
  BY <1>2 DEF resolve

LEMMA ResolvePrefixed ==
  ASSUME NEW c, NEW name, NEW given, NEW here, NEW rest, hasRoute(c, name),
         \A r \in RouteTable(c) : r.name = name => r.rest = rest /\ r.accepts # {}
  PROVE  /\ given # NoLocale => resolve(c, name, given, here) = Prefixed(given, rest)
         /\ given = NoLocale /\ here.locale # NoLocale =>
              resolve(c, name, given, here) = Prefixed(here.locale, rest)
         /\ given = NoLocale /\ here.locale = NoLocale => resolve(c, name, given, here) = NoPath
<1> DEFINE r == CHOOSE r \in RouteTable(c) : r.name = name
<1>1. r \in RouteTable(c) /\ r.name = name
  BY DEF hasRoute
<1>2. r.rest = rest /\ r.accepts # {}
  BY <1>1
<1> QED
  BY <1>2 DEF resolve

\* The page's own name.
LEMMA ResolvePlain ==
  ASSUME NEW c \in Configs, NEW p \in Pages \ c.off
  PROVE  /\ c.strategy \in {"no_prefix", "prefix_and_default"} =>
              \A given, here : resolve(c, <<p>>, given, here) = Bare(p)
         /\ c.strategy = "prefix_except_default" /\ DefaultLocale \in getAllowedLocales(c, p) =>
              /\ hasRoute(c, <<p>>)
              /\ \A given, here :
                   resolve(c, <<p>>, given, here) = Bare(restFor(c, p, DefaultLocale))
         /\ c.strategy = "prefix_except_default" /\ DefaultLocale \notin getAllowedLocales(c, p) =>
              \A given, here : resolve(c, <<p>>, given, here) = NoPath
<1>1. \A r \in RouteTable(c) : r.name = <<p>> => Plain(c, p, r)
  BY ByName
<1>2. ASSUME c.strategy # "prefix",
             c.strategy = "prefix_except_default" => DefaultLocale \in getAllowedLocales(c, p)
      PROVE  /\ hasRoute(c, <<p>>)
             /\ \A given, here : resolve(c, <<p>>, given, here) =
                  Bare(IF c.strategy = "prefix_except_default"
                       THEN restFor(c, p, DefaultLocale) ELSE p)
  <2> DEFINE rest == IF c.strategy = "prefix_except_default"
                     THEN restFor(c, p, DefaultLocale) ELSE p
  <2>1. hasRoute(c, <<p>>)
    BY <1>2, PlainKept DEF hasRoute
  <2>2. \A r \in RouteTable(c) : r.name = <<p>> => r.rest = rest /\ r.accepts = {}
    BY <1>1 DEF Plain
  <2> HIDE DEF rest
  <2>3. ASSUME NEW given, NEW here
        PROVE  resolve(c, <<p>>, given, here) = Bare(rest)
    BY <2>1, <2>2, ResolveBare
  <2> QED
    BY <2>1, <2>3 DEF rest
<1>3. ASSUME c.strategy = "prefix_except_default", DefaultLocale \notin getAllowedLocales(c, p)
      PROVE  \A given, here : resolve(c, <<p>>, given, here) = NoPath
  <2>1. ~hasRoute(c, <<p>>)
    BY <1>1, <1>3 DEF hasRoute, Plain
  <2> QED
    BY <2>1 DEF resolve
<1> QED
  BY <1>2, <1>3

\* The base of a page's route is its own name.
LEMMA NameOfPage ==
  ASSUME NEW c, NEW p, NEW l
  PROVE  /\ localized(<<p>>) = <<"localized", p>>
         /\ findLocalizedRouteName(c, <<p>>, l) =
              IF hasRoute(c, <<"localized", p, l>>) THEN <<"localized", p, l>>
              ELSE <<"localized", p>>
<1>1. Len(<<p>>) = 1 /\ <<p>>[1] = p
  OBVIOUS
<1> QED
  BY <1>1 DEF localized, findLocalizedRouteName

LEMMA ByOwnName ==
  ASSUME NEW c, NEW p
  PROVE  tryResolveByName(c, <<p>>) = resolve(c, <<p>>, NoLocale, Bare(p))
<1>1. <<p>>[1] = p
  OBVIOUS
<1> QED
  BY <1>1 DEF tryResolveByName

\* A custom path's name, which is not given the locale everywhere.
LEMMA ResolveCustom ==
  ASSUME NEW c \in Configs, NEW p \in Pages, NEW l \in Locales, HasCustomRoute(c, p, l)
  PROVE  /\ findLocalizedRouteName(c, <<p>>, l) = <<"localized", p, l>>
         /\ hasRoute(c, <<"localized", p, l>>)
         /\ \A given, here :
              LET k == IF given # NoLocale THEN given ELSE here.locale
              IN  resolve(c, <<"localized", p, l>>, given, here) =
                    IF c.strategy = "no_prefix" THEN Bare(c.custom[p][l])
                    ELSE IF k = NoLocale THEN NoPath ELSE Prefixed(k, c.custom[p][l])
<1> DEFINE name == <<"localized", p, l>>
<1>1. hasRoute(c, name)
  BY NamedKept
<1>2. ASSUME NEW r \in RouteTable(c), r.name = name
      PROVE  /\ r.rest = c.custom[p][l]
             /\ r.accepts = IF c.strategy = "no_prefix" THEN {} ELSE {l}
  BY <1>2, NamedKept
<1>3. findLocalizedRouteName(c, <<p>>, l) = name
  BY <1>1, NameOfPage
<1>4. ASSUME NEW given, NEW here
      PROVE  LET k == IF given # NoLocale THEN given ELSE here.locale
             IN  resolve(c, name, given, here) =
                    IF c.strategy = "no_prefix" THEN Bare(c.custom[p][l])
                    ELSE IF k = NoLocale THEN NoPath ELSE Prefixed(k, c.custom[p][l])
  <2> HIDE DEF name
  <2>1. CASE c.strategy = "no_prefix"
    <3>1. \A r \in RouteTable(c) : r.name = name => r.rest = c.custom[p][l] /\ r.accepts = {}
      BY <1>2, <2>1
    <3> QED
      BY <1>1, <2>1, <3>1, ResolveBare
  <2>2. CASE c.strategy # "no_prefix"
    <3> DEFINE r == CHOOSE r \in RouteTable(c) : r.name = name
    <3>1. r \in RouteTable(c) /\ r.name = name
      BY <1>1 DEF hasRoute
    <3>2. r.rest = c.custom[p][l] /\ r.accepts # {}
      BY <1>2, <2>2, <3>1
    <3> DEFINE k == IF given # NoLocale THEN given ELSE here.locale
    <3>3. resolve(c, name, given, here) =
            IF r.accepts # {} /\ k = NoLocale THEN NoPath
            ELSE IF r.accepts = {} THEN Bare(r.rest) ELSE Prefixed(k, r.rest)
      BY <1>1 DEF resolve
    <3> HIDE DEF r, k
    <3> QED
      BY <2>2, <3>2, <3>3 DEF k
  <2> QED
    BY <2>1, <2>2
<1> QED
  BY <1>1, <1>3, <1>4

\* The name the locales without a custom path share.
LEMMA ResolveShared ==
  ASSUME NEW c \in Configs, NEW p \in Pages, NEW l \in Locales, ~HasCustomRoute(c, p, l)
  PROVE  /\ findLocalizedRouteName(c, <<p>>, l) = <<"localized", p>>
         /\ hasRoute(c, <<"localized", p>>) =>
              /\ p \notin c.off /\ c.strategy # "no_prefix"
              /\ \A here : resolve(c, <<"localized", p>>, l, here) = Prefixed(l, p)
<1>1. ~hasRoute(c, <<"localized", p, l>>)
  BY NamedKept
<1>2. findLocalizedRouteName(c, <<p>>, l) = <<"localized", p>>
  BY <1>1, NameOfPage
<1>3. \A r \in RouteTable(c) : r.name = <<"localized", p>> =>
        /\ r.rest = p /\ r.accepts # {} /\ p \notin c.off /\ c.strategy # "no_prefix"
  BY ByName DEF Shared
<1>4. l # NoLocale
  BY RouteGenerationAssumption DEF RouteGenerationAssumption
<1>5. ASSUME hasRoute(c, <<"localized", p>>), NEW here
      PROVE  resolve(c, <<"localized", p>>, l, here) = Prefixed(l, p)
  <2>1. \A r \in RouteTable(c) : r.name = <<"localized", p>> => r.rest = p /\ r.accepts # {}
    BY <1>3
  <2> QED
    BY <1>4, <1>5, <2>1, ResolvePrefixed
<1> QED
  BY <1>2, <1>3, <1>5 DEF hasRoute

\* By the name of the page in the locale, from a path with or without a prefix.
LEMMA ByLocalizedName ==
  ASSUME o \in Configs, NEW p \in Pages, NEW l \in Locales, Exists(p, l), NEW here
  PROVE  LET home == resolveLocalizedPath(o, p, l)
             found == tryResolveByLocalizedName(o, <<p>>, l, here)
         IN  /\ shouldHavePrefix(o, l) =>
                  /\ hasRoute(o, findLocalizedRouteName(o, <<p>>, l))
                  /\ resolve(o, findLocalizedRouteName(o, <<p>>, l), l, here) = home
             /\ shouldHavePrefix(o, l) /\ (~isCustom(o, p, l) \/ here.locale = l) => found = home
             /\ shouldHavePrefix(o, l) /\ isCustom(o, p, l) /\ here.locale = NoLocale =>
                  found = NoPath
             /\ o.strategy = "no_prefix" =>
                  IF isCustom(o, p, l) /\ o.custom[p][l] # p
                  THEN hasRoute(o, findLocalizedRouteName(o, <<p>>, l)) /\ found = home
                  ELSE ~hasRoute(o, findLocalizedRouteName(o, <<p>>, l)) /\ found = NoPath
<1> DEFINE home == resolveLocalizedPath(o, p, l)
           found == tryResolveByLocalizedName(o, <<p>>, l, here)
<1>1. /\ home = buildLocalizedPath(o, restFor(o, p, l), l)
      /\ isCustom(o, p, l) => restFor(o, p, l) = o.custom[p][l]
      /\ ~isCustom(o, p, l) => restFor(o, p, l) = p
  BY HomeIs
<1>2. /\ p \notin o.off /\ l \in getAllowedLocales(o, p)
      /\ shouldHavePrefix(o, l) => l \in Prefixing(o, p) /\ o.strategy # "no_prefix"
      /\ o.strategy = "prefix_except_default" => (shouldHavePrefix(o, l) <=> l # DefaultLocale)
      /\ o.strategy = "no_prefix" => ~shouldHavePrefix(o, l)
  BY ExistsMeans
<1>3. l # NoLocale
  BY RouteGenerationAssumption DEF RouteGenerationAssumption
<1>4. <<"localized", p>> # <<"localized", p, l>>
  BY NamesApart
<1> HIDE DEF home
<1>5. CASE shouldHavePrefix(o, l) /\ isCustom(o, p, l)
  <2>1. HasCustomRoute(o, p, l)
    BY <1>2, <1>5 DEF HasCustomRoute
  <2>2. /\ findLocalizedRouteName(o, <<p>>, l) = <<"localized", p, l>>
        /\ hasRoute(o, <<"localized", p, l>>)
        /\ resolve(o, <<"localized", p, l>>, l, here) = Prefixed(l, o.custom[p][l])
        /\ resolve(o, <<"localized", p, l>>, NoLocale, here) =
             IF here.locale = NoLocale THEN NoPath ELSE Prefixed(here.locale, o.custom[p][l])
    BY <1>2, <1>3, <1>5, <2>1, ResolveCustom
  <2>3. home = Prefixed(l, o.custom[p][l])
    BY <1>1, <1>5 DEF buildLocalizedPath
  <2>4. found = resolve(o, <<"localized", p, l>>, NoLocale, here)
    BY <1>4, <2>2, NameOfPage DEF tryResolveByLocalizedName
  <2> QED
    BY <1>2, <1>3, <1>5, <2>2, <2>3, <2>4 DEF home
<1>6. CASE shouldHavePrefix(o, l) /\ ~isCustom(o, p, l)
  <2>1. ~HasCustomRoute(o, p, l)
    BY <1>6 DEF HasCustomRoute
  <2>2. \E r \in RouteTable(o) : r.name = <<"localized", p>> /\ l \in r.accepts
    BY <1>2, <1>6, ExistsMeans, SharedKept
  <2>3. /\ findLocalizedRouteName(o, <<p>>, l) = <<"localized", p>>
        /\ hasRoute(o, <<"localized", p>>)
        /\ resolve(o, <<"localized", p>>, l, here) = Prefixed(l, p)
    BY <2>1, <2>2, ResolveShared DEF hasRoute
  <2>4. home = Prefixed(l, p)
    BY <1>1, <1>6 DEF buildLocalizedPath
  <2>5. found = resolve(o, <<"localized", p>>, l, here)
    BY <2>3, NameOfPage DEF tryResolveByLocalizedName
  <2> QED
    BY <1>2, <1>6, <2>3, <2>4, <2>5 DEF home
<1>7. CASE o.strategy = "no_prefix" /\ isCustom(o, p, l) /\ o.custom[p][l] # p
  <2>1. HasCustomRoute(o, p, l)
    BY <1>2, <1>7 DEF HasCustomRoute
  <2>2. /\ findLocalizedRouteName(o, <<p>>, l) = <<"localized", p, l>>
        /\ hasRoute(o, <<"localized", p, l>>)
        /\ resolve(o, <<"localized", p, l>>, NoLocale, here) = Bare(o.custom[p][l])
    BY <1>7, <2>1, ResolveCustom
  <2>3. home = Bare(o.custom[p][l])
    BY <1>1, <1>2, <1>7 DEF buildLocalizedPath
  <2>4. found = resolve(o, <<"localized", p, l>>, NoLocale, here)
    BY <1>4, <2>2, NameOfPage DEF tryResolveByLocalizedName
  <2> QED
    BY <1>2, <1>7, <2>2, <2>3, <2>4 DEF home
<1>8. CASE o.strategy = "no_prefix" /\ ~(isCustom(o, p, l) /\ o.custom[p][l] # p)
  <2>1. ~HasCustomRoute(o, p, l)
    BY <1>8 DEF HasCustomRoute
  <2>2. /\ findLocalizedRouteName(o, <<p>>, l) = <<"localized", p>>
        /\ ~hasRoute(o, <<"localized", p>>)
    BY <1>8, <2>1, ResolveShared
  <2>3. found = NoPath
    BY <2>2, NameOfPage DEF tryResolveByLocalizedName, resolve
  <2> QED
    BY <1>2, <1>8, <2>2, <2>3
<1> QED
  BY <1>2, <1>5, <1>6, <1>7, <1>8 DEF home

\* Switching the locale leads to the URL of the page in it.
LEMMA SwitchReaches ==
  ASSUME o \in Configs, NEW p \in Pages, NEW l \in Locales, Exists(p, l), NEW here,
         \/ o.strategy \in {"no_prefix", "prefix_except_default"}
         \/ ~isCustom(o, p, l)
         \/ here.locale = l
  PROVE  switchLocaleRoute(o, <<p>>, here, l) = resolveLocalizedPath(o, p, l)
<1> DEFINE home == resolveLocalizedPath(o, p, l)
<1>1. /\ home = buildLocalizedPath(o, restFor(o, p, l), l)
      /\ isCustom(o, p, l) => restFor(o, p, l) = o.custom[p][l]
      /\ ~isCustom(o, p, l) => restFor(o, p, l) = p
  BY HomeIs
<1>2. /\ p \notin o.off /\ l \in getAllowedLocales(o, p)
      /\ o.strategy \in {"prefix", "prefix_and_default"} => shouldHavePrefix(o, l)
      /\ o.strategy = "prefix_except_default" => (shouldHavePrefix(o, l) <=> l # DefaultLocale)
      /\ o.strategy = "no_prefix" => ~shouldHavePrefix(o, l)
  BY ExistsMeans
<1> HIDE DEF home
<1>3. CASE o.strategy \in {"prefix", "prefix_and_default"}
  <2>1. /\ hasRoute(o, findLocalizedRouteName(o, <<p>>, l))
        /\ tryResolveByLocalizedName(o, <<p>>, l, here) = home
    BY <1>2, <1>3, ByLocalizedName DEF home
  <2> QED
    BY <1>3, <2>1 DEF switchLocaleRoute, defaultSwitchLocaleRoute, home
<1>4. CASE o.strategy = "prefix_except_default" /\ l # DefaultLocale
  <2>1. /\ hasRoute(o, findLocalizedRouteName(o, <<p>>, l))
        /\ resolve(o, findLocalizedRouteName(o, <<p>>, l), l, here) = home
    BY <1>2, <1>4, ByLocalizedName DEF home
  <2> QED
    BY <1>2, <1>4, <2>1 DEF switchLocaleRoute, exceptDefaultSwitchLocaleRoute, switchLocaleName, home
<1>5. CASE o.strategy = "prefix_except_default" /\ l = DefaultLocale
  <2>1. hasRoute(o, <<p>>) /\ resolve(o, <<p>>, l, here) = Bare(restFor(o, p, l))
    BY <1>2, <1>5, ResolvePlain
  <2>2. home = Bare(restFor(o, p, l))
    BY <1>1, <1>2, <1>5 DEF buildLocalizedPath
  <2> QED
    BY <1>2, <1>5, <2>1, <2>2 DEF switchLocaleRoute, exceptDefaultSwitchLocaleRoute, switchLocaleName, home
<1>6. CASE o.strategy = "no_prefix" /\ isCustom(o, p, l) /\ o.custom[p][l] # p
  <2>1. hasRoute(o, findLocalizedRouteName(o, <<p>>, l)) /\ tryResolveByLocalizedName(o, <<p>>, l, here) = home
    BY <1>6, ByLocalizedName DEF home
  <2> QED
    BY <1>6, <2>1 DEF switchLocaleRoute, defaultSwitchLocaleRoute, home
<1>7. CASE o.strategy = "no_prefix" /\ ~(isCustom(o, p, l) /\ o.custom[p][l] # p)
  <2>1. ~hasRoute(o, findLocalizedRouteName(o, <<p>>, l))
    BY <1>7, ByLocalizedName
  <2>2. tryResolveByName(o, <<p>>) = Bare(p)
    BY <1>2, <1>7, ResolvePlain, ByOwnName
  <2>3. home = Bare(p)
    BY <1>1, <1>2, <1>7 DEF buildLocalizedPath
  <2> QED
    BY <1>7, <2>1, <2>2, <2>3 DEF switchLocaleRoute, defaultSwitchLocaleRoute, home
<1> QED
  BY <1>3, <1>4, <1>5, <1>6, <1>7, OptionsTyped DEF Strategies

\* And the name it is reached by is the page's.
LEMMA SwitchNamed ==
  ASSUME o \in Configs, NEW p \in Pages, NEW l \in Locales,
         hasRoute(o, switchLocaleName(o, <<p>>, l))
  PROVE  NamesPage(switchLocaleName(o, <<p>>, l), p)
<1> DEFINE name == switchLocaleName(o, <<p>>, l)
<1>1. name \in {<<p>>, <<"localized", p>>, <<"localized", p, l>>}
  BY NameOfPage DEF switchLocaleName
<1>2. PICK r \in RouteTable(o) : r.name = name
  BY DEF hasRoute
<1> HIDE DEF name
<1>3. r.page = p
  BY <1>1, <1>2, ByName
<1> QED
  BY <1>2, <1>3 DEF NamesPage, name

\* A link by the name of the page does too, with what FollowByName asks of it.
LEMMA LinkReaches ==
  ASSUME o \in Configs, NEW p \in Pages, NEW l \in Locales, Exists(p, l), NEW here \in Paths,
         o.strategy = "prefix" => ~isCustom(o, p, l) \/ here.locale \in {l, NoLocale},
         o.strategy = "prefix_except_default" =>
           isCustom(o, p, l) \/ ~isCustom(o, p, DefaultLocale) \/ l = DefaultLocale
  PROVE  localeRouteByName(o, p, l, here) = resolveLocalizedPath(o, p, l)
<1> DEFINE home == resolveLocalizedPath(o, p, l)
           found == tryResolveByLocalizedName(o, <<p>>, l, here)
<1>1. /\ home = buildLocalizedPath(o, restFor(o, p, l), l) /\ home \in Paths
      /\ isCustom(o, p, l) => restFor(o, p, l) = o.custom[p][l]
      /\ ~isCustom(o, p, l) => restFor(o, p, l) = p
  BY HomeIs
<1>2. /\ p \notin o.off /\ l \in getAllowedLocales(o, p)
      /\ o.strategy \in {"prefix", "prefix_and_default"} => shouldHavePrefix(o, l)
      /\ o.strategy = "prefix_except_default" => (shouldHavePrefix(o, l) <=> l # DefaultLocale)
      /\ o.strategy = "no_prefix" => ~shouldHavePrefix(o, l)
  BY ExistsMeans
<1>3. /\ home # NoPath /\ DefaultLocale \in Locales /\ l # NoLocale
      /\ \A x \in Slugs : Bare(x) # NoPath
      /\ p \in Slugs
  BY <1>1, BareTyped, PathTyped, RouteGenerationAssumption DEF RouteGenerationAssumption
<1>4. /\ isCustom(o, p, l) => customRoute(o, p, l) = home
      /\ ~isCustom(o, p, l) => customRoute(o, p, l) = NoPath
      /\ ~isCustom(o, p, l) => home = buildLocalizedPath(o, p, l)
  BY <1>1 DEF customRoute, When
<1>5. /\ tryResolveByName(o, <<p>>) = Bare(p) /\ p # Index => sameRoute(o, p, l) = buildLocalizedPath(o, p, l)
      /\ tryResolveByName(o, <<p>>) = NoPath \/ p = Index => sameRoute(o, p, l) = NoPath
  BY <1>3 DEF sameRoute, Bare
<1>6. When(p \in o.off, Bare(p)) = NoPath
  BY <1>2 DEF When
<1> HIDE DEF home, found
<1>7. CASE o.strategy = "prefix"
  <2>1. found = home \/ (found = NoPath /\ isCustom(o, p, l))
    BY <1>2, <1>7, ByLocalizedName DEF home, found
  <2> QED
    BY <1>3, <1>4, <1>6, <1>7, <2>1
       DEF localeRouteByName, defaultResolveLocaleRoute, ??, home, found
<1>8. CASE o.strategy = "no_prefix"
  <2>1. IF isCustom(o, p, l) /\ o.custom[p][l] # p THEN found = home ELSE found = NoPath
    BY <1>8, ByLocalizedName DEF home, found
  <2>2. tryResolveByName(o, <<p>>) = Bare(p)
    BY <1>2, <1>8, ResolvePlain, ByOwnName
  <2>3. localeRouteByName(o, p, l, here) =
          (((When(p \in o.off, Bare(p)) ?? found) ?? customRoute(o, p, l)) ?? sameRoute(o, p, l))
            ?? buildLocalizedPath(o, p, l)
    BY <1>8 DEF localeRouteByName, defaultResolveLocaleRoute, found
  <2>4. CASE isCustom(o, p, l) /\ o.custom[p][l] # p
    BY <1>3, <1>6, <2>1, <2>3, <2>4 DEF ??, home
  <2>5. CASE isCustom(o, p, l) /\ o.custom[p][l] = p
    BY <1>3, <1>4, <1>6, <2>1, <2>3, <2>5 DEF ??, home
  <2>6. CASE ~isCustom(o, p, l)
    BY <1>3, <1>4, <1>5, <1>6, <2>1, <2>2, <2>3, <2>6 DEF ??, home
  <2> QED
    BY <2>4, <2>5, <2>6
<1>9. CASE o.strategy = "prefix_and_default"
  <2>1. localeRouteByName(o, p, l, here) =
          (((When(p \in o.off, Bare(p)) ?? customRoute(o, p, l)) ?? sameRoute(o, p, l))
            ?? rewriteWithLocalePrefix(found, l)) ?? Prefixed(l, p)
    BY <1>9 DEF localeRouteByName, andDefaultResolveLocaleRoute, found
  <2>2. tryResolveByName(o, <<p>>) = Bare(p)
    BY <1>2, <1>9, ResolvePlain, ByOwnName
  <2>3. CASE isCustom(o, p, l)
    BY <1>3, <1>4, <1>6, <2>1, <2>3 DEF ??, home
  <2>4. CASE ~isCustom(o, p, l)
    <3>1. found = home
      BY <1>2, <1>9, <2>4, ByLocalizedName DEF home, found
    <3>2. home = Prefixed(l, p)
      BY <1>2, <1>4, <1>9, <2>4 DEF buildLocalizedPath
    <3>3. rewriteWithLocalePrefix(found, l) = home
      BY <1>3, <3>1, <3>2 DEF rewriteWithLocalePrefix, Prefixed
    <3>4. sameRoute(o, p, l) \in {home, NoPath}
      BY <1>4, <1>5, <2>2, <2>4
    <3> QED
      BY <1>3, <1>4, <1>6, <2>1, <2>4, <3>3, <3>4 DEF ??, home
  <2> QED
    BY <2>3, <2>4
<1>10. CASE o.strategy = "prefix_except_default"
  <2>1. localeRouteByName(o, p, l, here) =
          (((When(p \in o.off, Bare(p)) ?? customRoute(o, p, l)) ?? sameRoute(o, p, l))
            ?? When(shouldHavePrefix(o, l), found)) ?? buildLocalizedPath(o, p, l)
    BY <1>10 DEF localeRouteByName, exceptDefaultResolveLocaleRoute, found
  <2>2. CASE isCustom(o, p, l)
    BY <1>3, <1>4, <1>6, <2>1, <2>2 DEF ??, home
  <2>3. CASE ~isCustom(o, p, l)
    <3>1. ~isCustom(o, p, DefaultLocale)
      BY <1>10, <2>3
    <3>2. tryResolveByName(o, <<p>>) \in {Bare(p), NoPath}
      BY <1>2, <1>10, <3>1, ResolvePlain, ByOwnName DEF restFor
    <3>3. sameRoute(o, p, l) \in {home, NoPath}
      BY <1>4, <1>5, <2>3, <3>2
    <3>4. When(shouldHavePrefix(o, l), found) \in {home, NoPath}
      BY <2>3, ByLocalizedName DEF home, found, When
    <3> QED
      BY <1>3, <1>4, <1>6, <2>1, <2>3, <3>3, <3>4 DEF ??, home
  <2> QED
    BY <2>2, <2>3
<1> QED
  BY <1>7, <1>8, <1>9, <1>10, OptionsTyped DEF Strategies

-----------------------------------------------------------------------------
(* What the user asked for.  While a link or a switch is under way it is on *)
(* the path it promised, which no redirect changes any more; at rest the tab *)
(* shows that page in that locale.                                         *)

\* Whatever else is invalid, the one locale among the candidates is chosen.
LEMMA OnlyCandidate ==
  ASSUME NEW c, NEW candidates, DOMAIN candidates \subseteq 1..3, NEW l \in Locales, NEW a,
         \E i \in DOMAIN candidates : candidates[i] = l,
         \A i \in DOMAIN candidates : candidates[i] \in Locales => candidates[i] = l
  PROVE  firstValid(c, candidates, a) = l
<1> DEFINE valid == {i \in DOMAIN candidates : candidates[i] \in Locales}
           best  == CHOOSE i \in valid : \A j \in valid : i <= j
<1>1. valid # {}
  OBVIOUS
<1>2. best \in valid
  <2>1. \A i \in valid : i = 1 \/ i = 2 \/ i = 3
    OBVIOUS
  <2>2. CASE 1 \in valid
    BY <2>1, <2>2
  <2>3. CASE 1 \notin valid /\ 2 \in valid
    BY <2>1, <2>3
  <2>4. CASE 1 \notin valid /\ 2 \notin valid
    BY <1>1, <2>1, <2>4
  <2> QED
    BY <2>2, <2>3, <2>4
<1>3. candidates[best] = l
  BY <1>2
<1>4. firstValid(c, candidates, a) =
        applyAutoDetectLanguage(c, IF valid = {} THEN DefaultLocale ELSE candidates[best],
                                valid # {}, a)
  BY DEF firstValid
<1> HIDE DEF valid, best
<1> QED
  BY <1>1, <1>3, <1>4 DEF applyAutoDetectLanguage

\* The path of a page in a locale rests, once that locale is preferred.
LEMMA HomeRests ==
  ASSUME o \in Configs, NEW p \in Pages, NEW l \in Locales, Exists(p, l)
  PROVE  LET home == resolveLocalizedPath(o, p, l)
         IN  /\ o.strategy # "no_prefix" =>
                  Rests(home, l) /\ (\A k : getCurrentLocale(o, home, k) = l)
             /\ o.strategy = "no_prefix" => \A k : redirectFrom(home, k) = NoPath
             /\ home.locale \in {l, NoLocale}
             /\ home.locale = NoLocale => o.strategy = "no_prefix" \/ l = DefaultLocale
<1> DEFINE home == resolveLocalizedPath(o, p, l)
<1>1. /\ home \in Paths /\ home.rest = restFor(o, p, l)
      /\ home.locale = IF shouldHavePrefix(o, l) THEN l ELSE NoLocale
      /\ restFor(o, p, l) = resolvePathForLocale(o, p, l)
  BY HomeIs DEF resolvePathForLocale
<1>2. /\ o.strategy \in {"prefix", "prefix_and_default"} => shouldHavePrefix(o, l)
      /\ o.strategy = "prefix_except_default" => (shouldHavePrefix(o, l) <=> l # DefaultLocale)
      /\ o.strategy = "no_prefix" => ~shouldHavePrefix(o, l)
  BY ExistsMeans
<1>3. l # NoLocale /\ o.strategy \in Strategies /\ p \in Slugs
  BY OptionsTyped, RouteGenerationAssumption DEF RouteGenerationAssumption
<1>4. resolvePathForLocale(o, home.rest, l) = home.rest
  BY <1>1, <1>3, ResolvedTwice
<1> HIDE DEF home
<1>5. CASE shouldHavePrefix(o, l)
  <2>1. home.locale = l /\ o.strategy # "no_prefix"
    BY <1>1, <1>2, <1>5
  <2>2. Rests(home, l)
    BY <1>3, <2>1 DEF Rests
  <2>3. \A k : getCurrentLocale(o, home, k) = l
    BY <1>3, <2>1 DEF getCurrentLocale, Strategies
  <2> QED
    BY <1>3, <2>1, <2>2, <2>3 DEF home
<1>6. CASE o.strategy = "prefix_except_default" /\ l = DefaultLocale
  <2>1. home.locale = NoLocale
    BY <1>1, <1>2, <1>6
  <2>2. Rests(home, l)
    BY <1>4, <1>6, <2>1 DEF Rests
  <2>3. \A k : getCurrentLocale(o, home, k) = l
    BY <1>6, <2>1 DEF getCurrentLocale
  <2> QED
    BY <1>6, <2>1, <2>2, <2>3 DEF home
<1>7. CASE o.strategy = "no_prefix"
  <2>1. home.locale = NoLocale
    BY <1>1, <1>2, <1>7
  <2>2. \A k : redirectFrom(home, k) = NoPath
    BY <1>7, <2>1 DEF redirectFrom, starRewrite, getClientRedirect, When, ??
  <2> QED
    BY <1>7, <2>1, <2>2 DEF home
<1> QED
  BY <1>2, <1>3, <1>5, <1>6, <1>7 DEF Strategies, home

\* The client is on its way to the URL of the page and the locale that were
\* promised, or is there; nothing redirects it, and no request is under way.
Home == resolveLocalizedPath(o, aim.page, aim.locale)

PromiseMet ==
  /\ tab.status = "page" /\ tab.page = aim.page
  /\ tab.path = Home
  /\ shown = aim.locale /\ locale = aim.locale

AimInv ==
  aim # NoAim =>
    /\ aim \in Aims
    /\ Exists(aim.page, aim.locale)
    /\ ~Requested
    /\ Navigating =>
         /\ going.path = Home /\ going.path # tab.path
         /\ going.name = NoName \/ NamesPage(going.name, aim.page)
         /\ o.strategy = "no_prefix" => locale = aim.locale
    /\ AtRest => PromiseMet

LEMMA AimTyped ==
  ASSUME TypeInv, AimInv, aim # NoAim
  PROVE  /\ o \in Configs /\ aim.page \in Pages /\ aim.locale \in Locales
         /\ Exists(aim.page, aim.locale)
         /\ Home \in Paths /\ Home # NoPath
         /\ RecordTargets(Home) = {} /\ PageAt(Home) = aim.page /\ ~shouldReturn404(o, Home)
<1>1. o \in Configs /\ aim.page \in Pages /\ aim.locale \in Locales /\ Exists(aim.page, aim.locale)
  BY DEF TypeInv, TypeOK, AimInv, Aims
<1> QED
  BY <1>1, HomeServed, HomeIs, PathTyped DEF Home

LEMMA AimArrives ==
  ASSUME TypeInv, AimInv, aim # NoAim, Navigating
  PROVE  /\ clientRedirect = NoPath
         /\ routeLocale = aim.locale
         /\ going.path = Home /\ going.path # tab.path
         /\ going.name = NoName \/ NamesPage(going.name, aim.page)
<1>1. /\ o \in Configs /\ aim.page \in Pages /\ aim.locale \in Locales
      /\ Exists(aim.page, aim.locale) /\ Home \in Paths
  BY AimTyped
<1>2. /\ going.path = Home /\ going.path # tab.path
      /\ going.name = NoName \/ NamesPage(going.name, aim.page)
      /\ o.strategy = "no_prefix" => locale = aim.locale
  BY DEF AimInv
<1>3. aim.locale # NoLocale
  BY <1>1, RouteGenerationAssumption DEF RouteGenerationAssumption
<1>4. CASE o.strategy = "no_prefix"
  <2>1. redirectFrom(Home, gated(Home, routeLocale)) = NoPath
    BY <1>1, <1>4, HomeRests DEF Home
  <2>2. routeLocale = aim.locale
    BY <1>2, <1>3, <1>4 DEF routeLocale, getCurrentLocale
  <2> QED
    BY <1>2, <2>1, <2>2 DEF clientRedirect
<1>5. CASE o.strategy # "no_prefix"
  <2>1. /\ Rests(Home, aim.locale) /\ routeLocale = aim.locale
        /\ Home.locale = NoLocale => aim.locale = DefaultLocale
    BY <1>1, <1>2, <1>5, HomeRests DEF Home, routeLocale
  <2>2. gated(Home, routeLocale) = aim.locale
    BY <2>1 DEF gated
  <2>3. redirectFrom(Home, aim.locale) = NoPath
    BY <1>1, <2>1, RestsNowhere
  <2> QED
    BY <1>2, <2>1, <2>2, <2>3 DEF clientRedirect
<1> QED
  BY <1>2, <1>4, <1>5

\* A navigation to the promised URL begins.
LEMMA PushAims ==
  ASSUME TypeInv, NEW p \in Pages, NEW l \in Locales, Exists(p, l),
         NEW name \in Names,
         Push(resolveLocalizedPath(o, p, l), name)
  PROVE  /\ going' # NoTarget /\ going'.by = "client"
         /\ going'.path = resolveLocalizedPath(o, p, l) /\ going'.name = name
<1>1. o \in Configs
  BY DEF TypeInv, TypeOK
<1>2. RecordTargets(resolveLocalizedPath(o, p, l)) = {} /\ resolveLocalizedPath(o, p, l) \in Paths
  BY <1>1, HomeServed, HomeIs
<1>3. going' \in Targets
  BY <1>2, PushTyped
<1> QED
  BY <1>2, <1>3, RedirectsAssumption DEF Push, RedirectsAssumption

LEMMA FollowAims ==
  ASSUME TypeInv, NEW p \in Pages, NEW l \in Locales, NEW path, NEW holds, MayLink(l),
         Follow(path, Promise(holds, p, l)),
         holds => Exists(p, l) /\ path = resolveLocalizedPath(o, p, l)
  PROVE  AimInv'
<1> SUFFICES ASSUME aim' # NoAim PROVE AimInv'
  BY DEF AimInv
<1>1. holds /\ aim' = [page |-> p, locale |-> l]
  BY DEF Follow, Promise
<1>2. aim'.page = p /\ aim'.locale = l /\ aim' \in Aims
  BY <1>1 DEF Aims
<1>3. /\ path # tab.path /\ Push(path, NoName) /\ o' = o /\ locale' = locale /\ tab' = tab
  BY DEF Follow
<1>4. Exists(p, l) /\ path = resolveLocalizedPath(o, p, l)
  BY <1>1
<1>5. /\ going' # NoTarget /\ going'.by = "client"
      /\ going'.path = path /\ going'.name = NoName
  <2>1. NoName \in Names
    BY DEF Names
  <2> QED
    BY <1>3, <1>4, <2>1, PushAims
<1>6. Exists(p, l)' /\ Home' = path
  BY <1>2, <1>3, <1>4 DEF Exists, HasOwnName, Home
<1>7. ~Requested' /\ ~AtRest'
  BY <1>5 DEF Requested, AtRest
<1>8. o.strategy = "no_prefix" => locale = l
  BY DEF MayLink
<1>9. Exists(aim.page, aim.locale)'
  BY <1>2, <1>6
<1> QED
  BY <1>2, <1>3, <1>5, <1>6, <1>7, <1>8, <1>9 DEF AimInv

LEMMA SwitchAims ==
  ASSUME TypeInv, NEW l \in Locales, SwitchLocale(l)
  PROVE  AimInv'
<1> DEFINE p == tab.page
           target == switchTarget(l)
           name == switchLocaleName(o, baseName(l), l)
<1> SUFFICES ASSUME aim' # NoAim PROVE AimInv'
  BY DEF AimInv
<1>1. SwitchIsSeen(l) /\ aim' = [page |-> p, locale |-> l]
  BY DEF SwitchLocale, Promise
<1>2. aim'.page = p /\ aim'.locale = l
  BY <1>1
<1>3. /\ OnPage /\ o' = o /\ tab' = tab /\ locale' = l
      /\ shown' = IF o.strategy = "no_prefix" THEN l ELSE shown
  BY DEF SwitchLocale
<1>4. o \in Configs /\ p \in Pages /\ tab.path \in Paths
  BY <1>3, TabTyped DEF TypeInv, TypeOK, OnPage
<1>5. Exists(p, l) /\ ReachedByName(p, l) /\ baseName(l) = <<p>>
  BY <1>1 DEF SwitchIsSeen
<1>6. target = resolveLocalizedPath(o, p, l)
  BY <1>4, <1>5, SwitchReaches DEF switchTarget, ReachedByName
<1>7. target # NoPath
  BY <1>4, <1>6, HomeIs, PathTyped
<1>8. Exists(aim.page, aim.locale)' /\ Home' = target /\ aim' \in Aims
  BY <1>1, <1>2, <1>3, <1>4, <1>5, <1>6 DEF Exists, HasOwnName, Home, Aims
<1>9. CASE target = tab.path
  <2>1. going' = NoTarget
    BY <1>9 DEF SwitchLocale
  <2>2. o.strategy = "no_prefix" \/ shown = l
    BY <1>1, <1>9 DEF SwitchIsSeen
  <2>3. PromiseMet'
    BY <1>2, <1>3, <1>8, <1>9, <2>2 DEF PromiseMet, OnPage
  <2> QED
    BY <1>8, <2>1, <2>3 DEF AimInv, Requested, Navigating
<1>10. CASE target # tab.path
  <2> DEFINE n == IF hasRoute(o, name) THEN name ELSE NoName
  <2>1. Push(target, n)
    BY <1>7, <1>10 DEF SwitchLocale
  <2>2. n \in Names /\ (n = NoName \/ NamesPage(n, p))
    <3>1. NoName \in Names
      BY DEF Names
    <3>2. hasRoute(o, name) => name \in Names
      BY <1>4, TableShape DEF hasRoute
    <3>3. hasRoute(o, name) => NamesPage(name, p)
      BY <1>4, <1>5, SwitchNamed
    <3> QED
      BY <3>1, <3>2, <3>3
  <2> HIDE DEF n
  <2>3. /\ going' # NoTarget /\ going'.by = "client"
        /\ going'.path = target /\ (going'.name = NoName \/ NamesPage(going'.name, p))
    BY <1>4, <1>5, <1>6, <2>1, <2>2, PushAims
  <2>4. NamesPage(going'.name, p) => NamesPage(going.name, aim.page)'
    BY <1>2, <1>3 DEF NamesPage
  <2> HIDE DEF target, p, name
  <2> QED
    BY <1>2, <1>3, <1>8, <1>10, <2>3, <2>4 DEF AimInv, Requested, AtRest
<1> QED
  BY <1>9, <1>10

LEMMA AimStep ==
  ASSUME TypeInv, AimInv, [Next]_vars
  PROVE  AimInv'
<1>c. o \in Configs /\ tab.path \in Paths
  BY TabTyped DEF TypeInv, TypeOK
<1>1. ASSUME NEW path \in Paths, NEW query \in Queries, Enter(path, query)
      PROVE  AimInv'
  BY <1>1 DEF Enter, AimInv
<1>2. CASE RespondNotFound \/ RespondRedirect \/ Respond
  <2>1. Requested /\ aim' = aim
    BY <1>2 DEF RespondNotFound, RespondRedirect, Respond
  <2> QED
    BY <2>1 DEF AimInv
<1>3. ASSUME NEW p \in Pages, NEW l \in Locales, FollowByPath(p, l)
      PROVE  AimInv'
  BY <1>c, <1>3, HomeIs, FollowAims DEF FollowByPath
<1>4. ASSUME NEW p \in Pages, NEW l \in Locales, FollowByName(p, l)
      PROVE  AimInv'
  <2> DEFINE holds == /\ Exists(p, l)
                      /\ o.strategy = "prefix" =>
                           ReachedByName(p, l) \/ tab.path.locale = NoLocale
                      /\ o.strategy = "prefix_except_default" =>
                           \/ isCustom(o, p, l)
                           \/ ~isCustom(o, p, DefaultLocale) \/ l = DefaultLocale
             path == localeRouteByName(o, p, l, tab.path)
  <2>1. holds => path = resolveLocalizedPath(o, p, l)
    BY <1>c, LinkReaches DEF ReachedByName
  <2>2. MayLink(l) /\ Follow(path, Promise(holds, p, l))
    BY <1>4 DEF FollowByName
  <2>3. holds => Exists(p, l)
    OBVIOUS
  <2> HIDE DEF holds, path
  <2> QED
    BY <2>1, <2>2, <2>3, FollowAims
<1>5. ASSUME NEW p \in Pages, FollowRaw(p)
      PROVE  AimInv'
  BY <1>5 DEF FollowRaw, Follow, AimInv
<1>6. ASSUME NEW l \in Locales, SwitchLocale(l)
      PROVE  AimInv'
  BY <1>6, SwitchAims
<1>7. CASE RedirectNavigation \/ Duplicate
  <2>1. aim = NoAim
    BY <1>7, AimArrives DEF RedirectNavigation, Duplicate
  <2> QED
    BY <1>7, <2>1 DEF RedirectNavigation, Duplicate, AimInv
<1>8. CASE Arrive
  <2> SUFFICES ASSUME aim # NoAim PROVE AimInv'
    BY <1>8 DEF Arrive, AimInv
  <2> DEFINE name == IF going.name # NoName THEN going.name ELSE NameAt(going.path)
  <2>1. /\ o' = o /\ aim' = aim /\ going' = NoTarget
        /\ tab' = Document(going.path, name)
        /\ shown' = routeLocale /\ locale' = routeLocale /\ Navigating
    BY <1>8 DEF Arrive
  <2>2. /\ routeLocale = aim.locale /\ going.path = Home
        /\ going.name = NoName \/ NamesPage(going.name, aim.page)
    BY <2>1, AimArrives
  <2>3. PageAt(Home) = aim.page /\ aim.page \in Pages /\ NoPage \notin Pages
    BY AimTyped, RedirectsAssumption DEF RedirectsAssumption
  <2>4. NamesPage(name, aim.page)
    <3>1. CASE going.name = NoName
      BY <1>c, <2>2, <2>3, <3>1, NamedAt
    <3>2. CASE going.name # NoName
      BY <2>2, <3>2
    <3> QED
      BY <3>1, <3>2
  <2> HIDE DEF name
  <2>7. tab'.status = "page" /\ tab'.page = aim.page /\ tab'.path = Home
    BY <1>c, <2>1, <2>2, <2>4, DocumentNamed
  <2>5. Home' = Home /\ (Exists(aim.page, aim.locale)' <=> Exists(aim.page, aim.locale))
    BY <2>1 DEF Home, Exists, HasOwnName
  <2>6. PromiseMet'
    BY <2>1, <2>2, <2>5, <2>7 DEF PromiseMet
  <2> QED
    BY <2>1, <2>5, <2>6 DEF AimInv, Requested, Navigating
<1>9. CASE UNCHANGED vars
  <2>1. /\ Home' = Home /\ (Exists(aim.page, aim.locale)' <=> Exists(aim.page, aim.locale))
        /\ (PromiseMet' <=> PromiseMet) /\ (Requested' <=> Requested) /\ (Navigating' <=> Navigating)
        /\ (AtRest' <=> AtRest) /\ (NamesPage(going.name, aim.page)' <=> NamesPage(going.name, aim.page))
    BY <1>9 DEF vars, Home, Exists, HasOwnName, PromiseMet, Requested, Navigating, AtRest, NamesPage
  <2> QED
    BY <1>9, <2>1 DEF vars, AimInv
<1> QED
  BY <1>1, <1>2, <1>3, <1>4, <1>5, <1>6, <1>7, <1>8, <1>9 DEF Next

LEMMA AimInit == Init => AimInv
  BY DEF Init, AimInv

\* Whatever the strategy, the custom paths, the routeLocales and what was
\* remembered, a link to a page in a locale ($localePath) and $switchLocale end
\* on that page, at its URL, with that dictionary and that locale state.
THEOREM PromisesKept == Spec => []PromiseKept
<1>1. AimInv => PromiseKept
  BY DEF AimInv, PromiseKept, PromiseMet, Home
<1> QED
  BY <1>1, TypeInit, TypeStep, AimInit, AimStep, PTL DEF Spec

\* And a reload keeps it.
LEMMA Reloaded ==
  ASSUME TypeInv, AimInv
  PROVE  ReloadStays
<1> DEFINE again == [path |-> tab.path, query |-> NoLocale]
<1> SUFFICES ASSUME AtRest, aim # NoAim, o.localeCookie, cookie = aim.locale
             PROVE  /\ ~shouldReturn404(o, tab.path)
                    /\ ServerTargets(again) = {}
                    /\ PageAt(tab.path) = aim.page
  BY DEF ReloadStays
<1>1. /\ o \in Configs /\ aim.page \in Pages /\ aim.locale \in Locales
      /\ Exists(aim.page, aim.locale) /\ Home \in Paths
      /\ RecordTargets(Home) = {} /\ PageAt(Home) = aim.page /\ ~shouldReturn404(o, Home)
  BY AimTyped
<1>2. tab.path = Home
  BY DEF AimInv, PromiseMet
<1>3. ReadCookie = aim.locale /\ NoLocale \notin Locales
  BY RouteGenerationAssumption DEF ReadCookie, RouteGenerationAssumption
<1>4. again.path = Home /\ again.query = NoLocale
  BY <1>2
<1> HIDE DEF again
<1>5. redirectFrom(Home, preferredLocale(again)) = NoPath
  <2>1. CASE o.strategy = "no_prefix"
    BY <1>1, <2>1, HomeRests DEF Home
  <2>2. CASE o.strategy # "no_prefix"
    <3>1. /\ Rests(Home, aim.locale) /\ Home.locale \in {aim.locale, NoLocale}
          /\ Home.locale = NoLocale => aim.locale = DefaultLocale
      BY <1>1, <2>2, HomeRests DEF Home
    <3>2. preferredLocale(again) = aim.locale
      <4>1. firstValid(o, <<Home.locale, NoLocale, aim.locale>>, accept) = aim.locale
        <5> DEFINE cs == <<Home.locale, NoLocale, aim.locale>>
        <5>1. DOMAIN cs \subseteq 1..3 /\ 3 \in DOMAIN cs /\ cs[3] = aim.locale
          OBVIOUS
        <5>2. \A i \in DOMAIN cs : cs[i] \in Locales => cs[i] = aim.locale
          BY <1>3, <3>1
        <5> HIDE DEF cs
        <5>3. firstValid(o, cs, accept) = aim.locale
          BY <1>1, <5>1, <5>2, OnlyCandidate
        <5> QED
          BY <5>3 DEF cs
      <4>2. firstValid(o, <<aim.locale, aim.locale>>, accept) = aim.locale
        <5> DEFINE cs == <<aim.locale, aim.locale>>
        <5>1. DOMAIN cs \subseteq 1..3 /\ 1 \in DOMAIN cs /\ cs[1] = aim.locale
          OBVIOUS
        <5>2. \A i \in DOMAIN cs : cs[i] \in Locales => cs[i] = aim.locale
          OBVIOUS
        <5> HIDE DEF cs
        <5>3. firstValid(o, cs, accept) = aim.locale
          BY <1>1, <5>1, <5>2, OnlyCandidate
        <5> QED
          BY <5>3 DEF cs
      <4>3. detected(again) = aim.locale
        BY <1>3, <1>4, <4>1 DEF detected, resolveServerLocale
      <4>4. resolvePreferredLocale(o, detected(again), ReadCookie, accept) = aim.locale
        BY <1>1, <1>3, <4>2, <4>3, FirstIsFirst DEF resolvePreferredLocale
      <4> QED
        BY <1>4, <3>1, <4>4 DEF preferredLocale, gated
    <3> QED
      BY <1>1, <3>1, <3>2, RestsNowhere
  <2> QED
    BY <2>1, <2>2
<1> QED
  BY <1>1, <1>2, <1>4, <1>5 DEF ServerTargets

\* What was reached that way is still there when the server is asked for it with
\* the cookie it left: neither the 404 nor a redirect of 06.redirect.ts answers.
THEOREM ReloadsStay == Spec => []ReloadStays
  BY TypeInit, TypeStep, AimInit, AimStep, Reloaded, PTL DEF Spec

-----------------------------------------------------------------------------
(* The route the tab is at.  The page on show is the one of the route by its *)
(* name: routeLocales is looked up by it for the alternate links.          *)

RecordInv == tab.status = "page" => NamesPage(tab.name, tab.page)

LEMMA RecordStep ==
  ASSUME RecordInv, [Next]_vars
  PROVE  RecordInv'
<1>1. o' = o
  BY DEF Next, Enter, RespondNotFound, RespondRedirect, Respond, FollowByPath, FollowByName,
         FollowRaw, Follow, SwitchLocale, RedirectNavigation, Duplicate, Arrive, vars
<1>2. CASE tab' = tab
  BY <1>1, <1>2 DEF RecordInv, NamesPage
<1>3. CASE tab' = Blank
  BY <1>3 DEF RecordInv, Blank
<1>4. ASSUME NEW path, NEW name, tab' = Document(path, name)
      PROVE  RecordInv'
  <2>1. tab'.name = name
    BY <1>4 DEF Document
  <2>2. tab'.status = "page" => NamesPage(name, tab'.page)
    BY <1>4, DocumentShows
  <2> QED
    BY <1>1, <2>1, <2>2 DEF RecordInv, NamesPage
<1>5. CASE Arrive
  BY <1>4, <1>5 DEF Arrive
<1>6. CASE ~Arrive
  BY <1>2, <1>3, <1>4, <1>6
     DEF Next, Enter, RespondNotFound, RespondRedirect, Respond, FollowByPath, FollowByName,
         FollowRaw, Follow, SwitchLocale, RedirectNavigation, Duplicate, vars
<1> QED
  BY <1>5, <1>6

LEMMA RecordInit == Init => RecordInv
  BY DEF Init, Blank, RecordInv

\* The name of the tab's route gives the locales of its page, but for a custom path.
LEMMA RouteNamed ==
  ASSUME TypeInv, RecordInv, OnPage,
         NEW l \in findAllowedLocalesForRoute(tab.name),
         o.only[tab.page] # {} => Len(tab.name) < 3
  PROVE  tab.page \in Pages /\ l \in Locales /\ isLocaleAllowedForUnlocalizedRoute(o, tab.page, l)
<1> DEFINE p == tab.page
<1>1. o \in Configs /\ p \in Pages
  BY DEF TypeInv, TypeOK, OnPage
<1>2. PICK r \in RouteTable(o) : r.name = tab.name /\ r.page = p
  BY DEF RecordInv, OnPage, NamesPage
<1> HIDE DEF p
<1>3. \/ Plain(o, p, r) \/ Shared(o, p, r) \/ Leading(o, p, r)
      \/ \E k \in Locales : Named(o, p, k, r)
  BY <1>1, <1>2, ByName
<1>4. /\ Len(<<p>>) = 1 /\ <<p>>[1] = p
      /\ Len(<<"localized", p>>) = 2 /\ <<"localized", p>>[2] = p
      /\ Len(<<"redirect", p>>) = 2 /\ <<"redirect", p>>[2] = p
  OBVIOUS
<1>5. CASE Plain(o, p, r) \/ Shared(o, p, r) \/ Leading(o, p, r)
  <2>1. \/ Len(tab.name) = 1 /\ tab.name[1] = p
        \/ Len(tab.name) = 2 /\ tab.name[2] = p
    BY <1>2, <1>4, <1>5 DEF Plain, Shared, Leading
  <2>2. findAllowedLocalesForRoute(tab.name) = getAllowedLocales(o, p)
    BY <2>1 DEF findAllowedLocalesForRoute
  <2> QED
    BY <1>1, <2>2, OptionsTyped DEF getAllowedLocales, isLocaleAllowedForUnlocalizedRoute, p
<1>6. CASE \E k \in Locales : Named(o, p, k, r)
  <2>1. Len(tab.name) = 3
    BY <1>2, <1>6 DEF Named
  <2>2. o.only[tab.page] = {}
    BY <2>1
  <2> QED
    BY <1>1, <2>1, <2>2 DEF isLocaleAllowedForUnlocalizedRoute, findAllowedLocalesForRoute, p
<1> QED
  BY <1>3, <1>5, <1>6

LEMMA AlternatesReach ==
  ASSUME TypeInv, RecordInv
  PROVE  AlternatesServed
<1> SUFFICES ASSUME OnPage, tab.page \notin o.off, NEW l \in alternates,
                    HasOwnName(tab.page, l), ReachedByName(tab.page, l),
                    baseName(locale) = <<tab.page>>,
                    o.only[tab.page] # {} => Len(tab.name) < 3
             PROVE  /\ switchLocalePath(l) = resolveLocalizedPath(o, tab.page, l)
                    /\ ~shouldReturn404(o, switchLocalePath(l))
                    /\ PageAt(switchLocalePath(l)) = tab.page
  BY DEF AlternatesServed
<1>1. l \in findAllowedLocalesForRoute(tab.name) /\ o.strategy # "no_prefix"
  BY DEF alternates
<1>2. /\ tab.page \in Pages /\ l \in Locales /\ o \in Configs
      /\ isLocaleAllowedForUnlocalizedRoute(o, tab.page, l)
  BY <1>1, RouteNamed DEF TypeInv, TypeOK
<1>3. Exists(tab.page, l)
  BY <1>2 DEF Exists
<1>4. switchLocalePath(l) = resolveLocalizedPath(o, tab.page, l)
  BY <1>2, <1>3, SwitchReaches DEF switchLocalePath, ReachedByName
<1> QED
  BY <1>2, <1>3, <1>4, HomeServed

\* Every alternate link that useLocaleHead.ts puts in the head of a page leads to
\* the route the build has for that page and locale, and the server answers it.
THEOREM AlternatesReached == Spec => []AlternatesServed
  BY TypeInit, TypeStep, RecordInit, RecordStep, AlternatesReach, PTL DEF Spec

-----------------------------------------------------------------------------
(* Loading a page's own path.  Whatever redirects, the request stays on a  *)
(* path of the page.                                                       *)

\* The tab was loaded at the own path of a page that every locale has, or of one
\* without localization.
Owned ==
  /\ entered # NoPath
  /\ o.redirects /\ entered.locale = NoLocale /\ entered.rest \in Pages
  /\ entered.rest \in o.off \/ \A l \in Locales : Exists(entered.rest, l)
  /\ o.autoDetectPath = "*" => ~getCustomPathsForPage(o, entered.rest)
  /\ o.autoDetectPath = "exact" => o.exactPath \in Pages

\* The request is for that path still, or for the page in some locale; for a path
\* without a prefix then because the default locale was preferred, and still is.
Reaching(path) ==
  \/ path = Bare(entered.rest)
  \/ /\ entered.rest \notin o.off
     /\ \E l \in Locales : path = resolveLocalizedPath(o, entered.rest, l)

OwnInv ==
  Owned =>
    /\ ~Navigating
    /\ Requested =>
         /\ Reaching(going.path)
         /\ /\ going.path # Bare(entered.rest) /\ going.path.locale = NoLocale
            /\ o.strategy = "prefix_except_default"
            => preferredLocale(going) = DefaultLocale
    /\ AtRest => tab.page = entered.rest

LEMMA OwnedTyped ==
  ASSUME TypeInv, Owned
  PROVE  /\ o \in Configs /\ entered.rest \in Pages /\ entered.rest \in Slugs
         /\ o.off \subseteq Pages
         /\ Bare(entered.rest) \in Paths /\ Bare(entered.rest).locale = NoLocale
         /\ Bare(entered.rest).rest = entered.rest
  BY OptionsTyped, BareTyped, RouteGenerationAssumption
     DEF TypeInv, TypeOK, Owned, RouteGenerationAssumption

\* The paths of a page under "*" are its own.
LEMMA StarPaths ==
  ASSUME NEW c \in Configs, NEW p \in Pages, ~getCustomPathsForPage(c, p), NEW l \in Locales
  PROVE  /\ resolveLocalizedPath(c, p, l).rest = p
         /\ ~(c.strategy = "no_prefix" \/ (c.strategy = "prefix_except_default" /\ l = DefaultLocale))
              => resolveLocalizedPath(c, p, l) = Prefixed(l, p)
<1>1. restFor(c, p, l) = p
  BY DEF getCustomPathsForPage, restFor
<1> QED
  BY <1>1 DEF resolveLocalizedPath, Bare, Prefixed

\* A path of the page is served once nothing redirects it.
LEMMA ReachingServed ==
  ASSUME TypeInv, Owned, NEW req, req.path \in Paths, Reaching(req.path)
  PROVE  /\ ~shouldReturn404(o, req.path)
         /\ ServerTargets(req) = {} => PageAt(req.path) = entered.rest
<1> DEFINE e == entered.rest
           l == preferredLocale(req)
<1>1. /\ o \in Configs /\ e \in Pages /\ Bare(e) \in Paths /\ Bare(e).locale = NoLocale
      /\ Bare(e).rest = e /\ l \in Locales
  BY OwnedTyped, PreferredTyped
<1>2. ASSUME e \notin o.off, NEW k \in Locales, req.path = resolveLocalizedPath(o, e, k)
      PROVE  ~shouldReturn404(o, req.path) /\ PageAt(req.path) = e
  <2>1. Exists(e, k)
    BY <1>2 DEF Owned
  <2> QED
    BY <1>1, <1>2, <2>1, HomeServed
<1>3. ASSUME req.path = Bare(e)
      PROVE  /\ ~shouldReturn404(o, req.path)
             /\ ServerTargets(req) = {} => PageAt(req.path) = e
  <2>1. ~shouldReturn404(o, req.path)
    BY <1>1, <1>3 DEF shouldReturn404
  <2>2. CASE o.strategy \in {"no_prefix", "prefix_and_default"} \/ e \in o.off
    BY <1>1, <1>3, <2>1, <2>2, OwnPathKept
  <2>3. CASE o.strategy \in {"prefix", "prefix_except_default"} /\ e \notin o.off
    <3> SUFFICES ASSUME ServerTargets(req) = {} PROVE PageAt(req.path) = e
      BY <2>1
    <3> DEFINE home == resolveLocalizedPath(o, e, l)
    <3>1. home = buildLocalizedPath(o, resolvePathForLocale(o, e, l), l) /\ home # NoPath
      BY <1>1, HomeIs, PathTyped DEF localeRouteByPath
    <3>2. getClientRedirect(o, req.path, l) = IF home # req.path THEN home ELSE NoPath
      BY <1>1, <1>3, <2>3, <3>1 DEF getClientRedirect, When, isUnlocalizedRoute
    <3>3. starRewrite(req.path, l) = NoPath /\ o.redirects
      BY <1>1, <1>3 DEF starRewrite, When, Owned
    <3>4. redirectFrom(req.path, l) = NoPath
      BY DEF ServerTargets
    <3>5. home = req.path
      BY <3>1, <3>2, <3>3, <3>4 DEF redirectFrom, ??
    <3> QED
      BY <1>1, <1>2, <2>3, <3>5
  <2> QED
    BY <1>1, <2>2, <2>3, OptionsTyped DEF Strategies
<1> QED
  BY <1>2, <1>3 DEF Reaching

\* A redirect leads to a path of the page again.
LEMMA ReachingRedirected ==
  ASSUME TypeInv, Owned, RespondRedirect, Reaching(going.path),
         /\ going.path # Bare(entered.rest) /\ going.path.locale = NoLocale
         /\ o.strategy = "prefix_except_default"
         => preferredLocale(going) = DefaultLocale,
         NEW t \in ServerTargets(going)
  PROVE  /\ Reaching(t)
         /\ /\ t # Bare(entered.rest) /\ t.locale = NoLocale
            /\ o.strategy = "prefix_except_default"
            => /\ going.path = Bare(entered.rest) /\ o.autoDetectPath # "*"
               /\ preferredLocale(going) = DefaultLocale
               /\ t.rest \notin Pages
<1> DEFINE e == entered.rest
           l == preferredLocale(going)
           path == going.path
<1>1. /\ o \in Configs /\ e \in Pages /\ Bare(e) \in Paths /\ Bare(e).locale = NoLocale
      /\ Bare(e).rest = e /\ l \in Locales /\ path \in Paths
  BY OwnedTyped, PreferredTyped, GoingTyped DEF RespondRedirect, Requested
<1>2. DefaultLocale \in Locales /\ NoLocale \notin Locales
  BY RouteGenerationAssumption DEF RouteGenerationAssumption
<1>3. ASSUME e \notin o.off, NEW k \in Locales, t = resolveLocalizedPath(o, e, k), k = l \/ t.locale # NoLocale,
             path = Bare(e)
      PROVE  /\ Reaching(t)
             /\ /\ t # Bare(entered.rest) /\ t.locale = NoLocale
                /\ o.strategy = "prefix_except_default"
                => /\ path = Bare(e) /\ o.autoDetectPath # "*" /\ l = DefaultLocale
                   /\ t.rest \notin Pages
  <2>1. /\ t \in Paths /\ t.rest = restFor(o, e, k)
        /\ t.locale = IF shouldHavePrefix(o, k) THEN k ELSE NoLocale
        /\ isCustom(o, e, k) => restFor(o, e, k) = o.custom[e][k]
        /\ ~isCustom(o, e, k) => restFor(o, e, k) = e
    BY <1>1, <1>3, HomeIs
  <2>2. ASSUME t # Bare(e), t.locale = NoLocale, o.strategy = "prefix_except_default"
        PROVE  o.autoDetectPath # "*" /\ l = DefaultLocale /\ t.rest \notin Pages
    <3>1. k = l /\ l = DefaultLocale
      BY <1>2, <1>3, <2>1, <2>2 DEF shouldHavePrefix
    <3>2. t.rest # e
      BY <2>1, <2>2, PathIs
    <3>3. isCustom(o, e, k) /\ t.rest \notin Pages
      BY <1>1, <1>3, <2>1, <3>2, OptionsTyped
    <3> QED
      BY <3>1, <3>3 DEF Owned, getCustomPathsForPage
  <2> QED
    BY <1>3, <2>2 DEF Reaching
<1>4. CASE path = Bare(e)
  <2>1. starRewrite(path, l) = NoPath
    BY <1>1, <1>4 DEF starRewrite, When
  <2>2. CASE t \in RecordTargets(path)
    <3>1. PICK r \in Match(o, path) : r.redirect # NoPath /\ t = r.redirect
      BY <2>2 DEF RecordTargets
    <3>2. r \in RouteTable(o) /\ r.rest = e
      BY <1>1, <1>4, <3>1 DEF Match
    <3>3. Leading(o, r.page, r)
      BY <1>1, <3>1, <3>2, ByName DEF Plain, Shared, Named
    <3>4. /\ isCustom(o, e, DefaultLocale) /\ o.strategy = "prefix"
          /\ t = Prefixed(DefaultLocale, o.custom[e][DefaultLocale])
      BY <3>1, <3>2, <3>3 DEF Leading
    <3>5. e \notin o.off
      BY <1>1, <1>2, <3>4, RouteGenerationAssumption DEF RouteGenerationAssumption, isCustom
    <3>6. t = resolveLocalizedPath(o, e, DefaultLocale)
      BY <3>4 DEF resolveLocalizedPath, restFor
    <3> QED
      BY <1>2, <3>4, <3>5, <3>6 DEF Reaching
  <2>3. CASE t \notin RecordTargets(path)
    <3>1. t = getClientRedirect(o, path, l) /\ t # NoPath
      BY <2>1, <2>3 DEF ServerTargets, redirectFrom, ??
    <3>2. /\ e \notin o.off
          /\ t = buildLocalizedPath(o, resolvePathForLocale(o, e, l), l)
      BY <1>1, <1>4, <3>1 DEF getClientRedirect, When, isUnlocalizedRoute
    <3>3. t = resolveLocalizedPath(o, e, l)
      BY <1>1, <3>2, HomeIs DEF localeRouteByPath
    <3> QED
      BY <1>1, <1>3, <1>4, <3>2, <3>3
  <2> QED
    BY <2>2, <2>3
<1>5. CASE path # Bare(e)
  <2>1. PICK k \in Locales : e \notin o.off /\ path = resolveLocalizedPath(o, e, k)
    BY <1>5 DEF Reaching
  <2>2. Exists(e, k)
    BY <2>1 DEF Owned
  <2>3. /\ RecordTargets(path) = {}
        /\ path.rest = restFor(o, e, k)
        /\ path.locale = IF shouldHavePrefix(o, k) THEN k ELSE NoLocale
        /\ isCustom(o, e, k) => restFor(o, e, k) = o.custom[e][k]
        /\ ~isCustom(o, e, k) => restFor(o, e, k) = e
    BY <1>1, <2>1, <2>2, HomeServed, HomeIs
  <2>4. o.strategy # "no_prefix"
    <3> SUFFICES ASSUME o.strategy = "no_prefix" PROVE FALSE
      OBVIOUS
    <3>1. redirectFrom(path, l) = NoPath
      BY <1>1, <2>1, <2>2, HomeRests
    <3> QED
      BY <2>3, <3>1 DEF ServerTargets
  <2>5. t = redirectFrom(path, l) /\ t # NoPath
    BY <2>3 DEF ServerTargets
  <2>6. CASE path.locale # NoLocale
    <3>1. getClientRedirect(o, path, l) = NoPath
      BY <2>6 DEF getClientRedirect, When
    <3>2. t = starRewrite(path, l)
      BY <2>5, <3>1 DEF redirectFrom, ??
    <3>3. o.autoDetectPath = "*"
      BY <2>5, <3>2 DEF starRewrite, When
    <3>4. ~getCustomPathsForPage(o, e)
      BY <3>3 DEF Owned
    <3>5. path.rest = e
      BY <1>1, <2>1, <3>4, StarPaths
    <3>6. CASE l = DefaultLocale /\ o.strategy = "prefix_except_default"
      <4>1. t = Bare(e)
        BY <2>5, <3>2, <3>5, <3>6 DEF starRewrite, When
      <4> QED
        BY <4>1 DEF Reaching
    <3>7. CASE ~(l = DefaultLocale /\ o.strategy = "prefix_except_default")
      <4>1. t = Prefixed(l, e)
        BY <2>5, <3>2, <3>5, <3>7 DEF starRewrite, When
      <4>2. t = resolveLocalizedPath(o, e, l)
        BY <1>1, <2>4, <3>4, <3>7, <4>1, StarPaths
      <4>3. t.locale # NoLocale
        BY <1>1, <1>2, <4>1 DEF Prefixed
      <4>4. l \in Locales /\ e \notin o.off
        BY <1>1, <2>1
      <4>5. Reaching(t)
        BY <4>2, <4>4 DEF Reaching
      <4> QED
        BY <4>3, <4>5
    <3> QED
      BY <3>6, <3>7
  <2>7. CASE path.locale = NoLocale
    <3>1. o.strategy = "prefix_except_default" /\ k = DefaultLocale
      BY <1>1, <1>2, <2>3, <2>4, <2>7, OptionsTyped DEF shouldHavePrefix, Strategies
    <3>2. l = DefaultLocale
      BY <1>5, <2>7, <3>1
    <3>3. Rests(path, l)
      BY <1>1, <2>1, <2>2, <2>4, <3>1, <3>2, HomeRests
    <3> QED
      BY <1>1, <2>5, <3>3, RestsNowhere
  <2> QED
    BY <2>6, <2>7
<1> QED
  BY <1>4, <1>5

\* A bare path that nothing covers, or that the preferred locale steers again,
\* stays with the default locale.
LEMMA StillDefault ==
  ASSUME TypeInv, Owned, RespondRedirect, going.path.locale = NoLocale,
         preferredLocale(going) = DefaultLocale, o.autoDetectPath # "*",
         going.path = Bare(entered.rest),
         NEW t \in Paths, t.locale = NoLocale, t.rest \notin Pages,
         going' = [going EXCEPT !.path = t]
  PROVE  preferredLocale(going)' = DefaultLocale
<1>1. going \in Targets /\ o' = o /\ accept' = accept
  BY GoingTyped DEF RespondRedirect, Requested
<1>2. going'.path = t /\ going'.query = going.query
  BY <1>1 DEF Targets
<1>3. cookie' = cookie
  BY DEF RespondRedirect, syncedCookie
<1>4. detected(going)' = detected(going) /\ ReadCookie' = ReadCookie
  BY <1>1, <1>2, <1>3 DEF detected, ReadCookie
<1>5. CASE o.autoDetectPath = "no_prefix"
  BY <1>1, <1>2, <1>4, <1>5 DEF preferredLocale, gated, shouldAttemptLocaleRedirect
<1>6. CASE o.autoDetectPath = "exact"
  <2>1. t # Bare(o.exactPath)
    BY <1>6 DEF Owned, Bare
  <2> QED
    BY <1>1, <1>2, <1>6, <2>1 DEF preferredLocale, gated, shouldAttemptLocaleRedirect
<1> QED
  BY <1>5, <1>6, OptionsTyped DEF TypeInv, TypeOK

LEMMA OwnStep ==
  ASSUME TypeInv, OwnInv, [Next]_vars
  PROVE  OwnInv'
<1>1. ASSUME NEW path \in Paths, NEW query \in Queries, Enter(path, query)
      PROVE  OwnInv'
  <2>1. /\ going' \in Targets /\ going'.path = path /\ going'.by = "server" /\ entered' = path
        /\ o' = o
    BY <1>1 DEF Enter, Targets, Names
  <2>2. Owned' => path = Bare(path.rest)
    BY <2>1, PathIs DEF Owned
  <2>3. going' # NoTarget
    BY <2>1, RedirectsAssumption DEF RedirectsAssumption
  <2> QED
    BY <2>1, <2>2, <2>3 DEF OwnInv, Reaching, Navigating, AtRest
<1>2. CASE RespondNotFound
  <2> SUFFICES ASSUME Owned PROVE FALSE
    <3>1. Owned' <=> Owned
      BY <1>2 DEF RespondNotFound, Owned, Exists, HasOwnName
    <3> QED
      BY <3>1 DEF OwnInv
  <2>1. Reaching(going.path) /\ going.path \in Paths
    BY <1>2, GoingTyped DEF RespondNotFound, OwnInv, Requested
  <2> QED
    BY <1>2, <2>1, ReachingServed DEF RespondNotFound
<1>3. CASE RespondRedirect
  <2>1. Owned' <=> Owned
    BY <1>3 DEF RespondRedirect, Owned, Exists, HasOwnName
  <2> SUFFICES ASSUME Owned PROVE OwnInv'
    BY <2>1 DEF OwnInv
  <2>2. PICK t \in ServerTargets(going) : going' = [going EXCEPT !.path = t]
    BY <1>3 DEF RespondRedirect
  <2>3. going \in Targets /\ going.by = "server" /\ going.path \in Paths
    BY <1>3, GoingTyped DEF RespondRedirect, Requested
  <2>4. t \in Paths
    BY <2>3, ServerTargetsTyped
  <2>5. going' \in Targets /\ going'.path = t /\ going'.by = "server" /\ going' # NoTarget
    BY <2>2, <2>3, <2>4, RedirectsAssumption DEF Targets, RedirectsAssumption
  <2>6. /\ Reaching(t)
        /\ /\ t # Bare(entered.rest) /\ t.locale = NoLocale
           /\ o.strategy = "prefix_except_default"
           => /\ going.path = Bare(entered.rest) /\ o.autoDetectPath # "*"
              /\ preferredLocale(going) = DefaultLocale
              /\ t.rest \notin Pages
    BY <1>3, ReachingRedirected DEF OwnInv, RespondRedirect
  <2>7. /\ t # Bare(entered.rest) /\ t.locale = NoLocale
        /\ o.strategy = "prefix_except_default"
        => preferredLocale(going)' = DefaultLocale
    BY <1>3, <2>2, <2>4, <2>6, StillDefault, OwnedTyped
  <2>8. o' = o /\ entered' = entered
    BY <1>3 DEF RespondRedirect
  <2> QED
    BY <2>5, <2>6, <2>7, <2>8 DEF OwnInv, Reaching, Navigating, AtRest
<1>4. CASE Respond
  <2>1. Owned' <=> Owned
    BY <1>4 DEF Respond, Owned, Exists, HasOwnName
  <2> SUFFICES ASSUME Owned PROVE OwnInv'
    BY <2>1 DEF OwnInv
  <2>2. Reaching(going.path) /\ going.path \in Paths
    BY <1>4, GoingTyped DEF Respond, OwnInv, Requested
  <2>3. PageAt(going.path) = entered.rest
    BY <1>4, <2>2, ReachingServed DEF Respond
  <2>4. tab'.page = PageAt(going.path) /\ going' = NoTarget /\ entered' = entered
    <3>1. o \in Configs /\ PageAt(going.path) # NoPage
      BY <2>3, RedirectsAssumption DEF TypeInv, TypeOK, Owned, RedirectsAssumption
    <3>2. Document(going.path, NameAt(going.path)).page = PageAt(going.path)
      BY <3>1, NamedAt, DocumentNamed
    <3> QED
      BY <1>4, <3>2 DEF Respond
  <2> QED
    BY <2>3, <2>4 DEF OwnInv, Requested, Navigating
<1>5. ASSUME NEW path, NEW promise, Follow(path, promise)
      PROVE  OwnInv'
  BY <1>5 DEF Follow, OwnInv, Owned
<1>6. ASSUME NEW l \in Locales, SwitchLocale(l)
      PROVE  OwnInv'
  BY <1>6 DEF SwitchLocale, OwnInv, Owned
<1>7. CASE RedirectNavigation \/ Duplicate \/ Arrive
  <2>1. Navigating /\ o' = o /\ entered' = entered
    BY <1>7 DEF RedirectNavigation, Duplicate, Arrive
  <2>2. ~Owned /\ (Owned' <=> Owned)
    BY <2>1 DEF OwnInv, Owned, Exists, HasOwnName
  <2> QED
    BY <2>2 DEF OwnInv
<1>8. CASE UNCHANGED vars
  <2>1. /\ (Owned' <=> Owned) /\ (Navigating' <=> Navigating) /\ (Requested' <=> Requested)
        /\ (AtRest' <=> AtRest) /\ Reaching(going.path)' = Reaching(going.path)
        /\ preferredLocale(going)' = preferredLocale(going)
    BY <1>8 DEF vars, Owned, Exists, HasOwnName, Navigating, Requested, AtRest, Reaching,
                preferredLocale, detected, gated, ReadCookie
  <2> QED
    BY <1>8, <2>1 DEF vars, OwnInv
<1>9. CASE \E p \in Pages, l \in Locales : FollowByPath(p, l) \/ FollowByName(p, l)
  BY <1>5, <1>9 DEF FollowByPath, FollowByName
<1>10. CASE \E p \in Pages : FollowRaw(p)
  BY <1>5, <1>10 DEF FollowRaw
<1> QED
  BY <1>1, <1>2, <1>3, <1>4, <1>6, <1>7, <1>8, <1>9, <1>10 DEF Next

LEMMA OwnInit == Init => OwnInv
  BY DEF Init, OwnInv, Owned

\* Loading a page's own path ends on the page, whichever locale's path the server
\* redirects it to and however many redirects that takes (06.redirect.ts).
THEOREM OwnPathsServed == Spec => []OwnPathServed
<1>1. OwnInv => OwnPathServed
  BY DEF OwnInv, Owned, OwnPathServed
<1> QED
  BY <1>1, TypeInit, TypeStep, OwnInit, OwnStep, PTL DEF Spec
=============================================================================
