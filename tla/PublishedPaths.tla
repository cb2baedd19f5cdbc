--------------------------- MODULE PublishedPaths ---------------------------
(***************************************************************************)
(* The URLs the application publishes without a user asking for them: the  *)
(* alternate links in the head of a page (useLocaleHead.ts), which search  *)
(* engines follow, and the routes a static build renders in advance (the   *)
(* hook prerender:routes of src/module.ts).  Nobody clicks them in a test, *)
(* and they come from other code than the routes they have to hit.         *)
(*                                                                         *)
(* The build is static (isSSG) and is asked to render every page at its    *)
(* own path; rules that exclude a path are left out.  In the head the href *)
(* of a locale matters, not its hreflang, the base URL or the og tags.     *)
(***************************************************************************)
EXTENDS Redirects

\* Mutant of findAllowedLocalesForRoute: routeLocales is looked up by the name alone.
ByNameOnly(name) == IF Len(name) = 1 THEN getAllowedLocales(o, name[1]) ELSE Locales

\* The locales of a route, by its name without the prefix or its pattern: the
\* name "localized-p-l" and a custom path are no key of routeLocales.
findAllowedLocalesForRoute(name) ==
  CASE Len(name) = 1 -> getAllowedLocales(o, name[1])
    [] Len(name) = 2 -> getAllowedLocales(o, name[2])
    [] Len(name) = 3 -> Locales

switchLocalePath(l) == switchLocaleRoute(o, baseName(locale), tab.path, l)

\* The locales the head of the tab's page has an alternate link for.
alternates ==
  {l \in findAllowedLocalesForRoute(tab.name) :
     o.strategy # "no_prefix" /\ switchLocalePath(l) # NoPath}

-----------------------------------------------------------------------------
\* Mutant of localizedRoutes: routeLocales is not asked.
LocalizedEverywhere(rests) ==
  {resolveLocalizedPath(o, rest, l) : rest \in rests, l \in Locales}

\* The paths of these pages in every locale that may serve them.
localizedRoutes(rests) ==
  UNION {{resolveLocalizedPath(o, rest, l) :
            l \in {l \in Locales : isLocaleAllowedForUnlocalizedRoute(o, rest, l)}} :
           rest \in rests}

\* What a static build renders when it was asked for every page.
prerenderRoutes ==
  IF o.strategy = "no_prefix" THEN {Bare(p) : p \in Pages}
  ELSE {r \in {Bare(p) : p \in Pages} \union localizedRoutes(Pages) :
          o.strategy \in {"prefix", "prefix_and_default"} =>
            r.locale # NoLocale \/ r = Bare(Index)}

\* A request of the prerenderer carries no cookie and no Accept-Language header.
Prerendering ==
  /\ Requested
  /\ going.path \in prerenderRoutes
  /\ going.query = NoLocale
  /\ cookie = NoLocale
  /\ accept = NoLocale \/ ~o.autoDetectLanguage

-----------------------------------------------------------------------------
\* Every alternate link of a page leads to that page in that locale: to the URL
\* the build has for it, which is answered with neither a 404 nor another page
\* (useLocaleHead.ts:210-239 against the routes of the build).  The premises
\* exclude links the router's names do not reach, as in PromiseKept, a name
\* whose locale is not the current one, and a custom path of a page with
\* routeLocales, which the lookup misses.
AlternatesServed ==
  OnPage /\ tab.page \notin o.off /\ baseName(locale) = <<tab.page>> =>
    \A l \in alternates :
      LET href == switchLocalePath(l)
      IN  /\ HasOwnName(tab.page, l) /\ ReachedByName(tab.page, l)
          /\ o.only[tab.page] # {} => Len(tab.name) < 3
          => /\ href = resolveLocalizedPath(o, tab.page, l)
             /\ ~shouldReturn404(o, href)
             /\ PageAt(href) = tab.page

\* A prerendered route is a page, or redirects to a route that is prerendered
\* too: the static site has no dead end (module.ts:838-925).  Excluded are "*",
\* under which only the default locale is ever served, the prefixes listed for a
\* page without localization, which are 404s, the routes the router does not
\* keep, and a page's own path where the default locale does not have the page
\* or, with `redirects` off, has it at another path: nothing leads there.
PrerenderingCloses ==
  /\ Prerendering /\ o.autoDetectPath # "*"
  /\ going.path.rest \notin o.off
  /\ IF going.path.locale = NoLocale
     THEN o.strategy \in {"prefix", "prefix_except_default"} /\ going.path.rest \in Pages =>
            /\ isLocaleAllowedForUnlocalizedRoute(o, going.path.rest, DefaultLocale)
            /\ \/ o.redirects
               \/ going.path = resolveLocalizedPath(o, going.path.rest, DefaultLocale)
     ELSE going.path.rest \in Pages => HasOwnName(going.path.rest, going.path.locale)
  => /\ ~shouldReturn404(o, going.path)
     /\ ServerTargets(going) \subseteq prerenderRoutes
     /\ ServerTargets(going) = {} => PageAt(going.path) # NoPage
=============================================================================
