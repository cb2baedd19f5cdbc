------------------------------ MODULE Redirects ------------------------------
(***************************************************************************)
(* One browser tab that is loaded from the server and then navigated: the  *)
(* locale each request is detected to have, the redirects and 404s of the  *)
(* server's plugin, the redirects of the client's route middleware, the    *)
(* navigation guard, links to localized pages and $switchLocale, with the  *)
(* cookie and the locale state they read and write.                        *)
(*                                                                         *)
(* src/runtime/server/middleware/i18n.global.ts, plugins/01.plugin.ts and  *)
(* 06.redirect.ts, middleware/i18n-redirect.global.ts,                     *)
(* composables/useI18nLocale.ts and utils/nuxt-i18n.ts, on the modules     *)
(* PathStrategy and LocaleDetection.  Translations arrive at once here     *)
(* (the module Navigation lets them take time), internal paths and         *)
(* customRegexMatcher are left out, and the browser sends the same         *)
(* Accept-Language header throughout.                                      *)
(*                                                                         *)
(* vue-router and Nuxt are modelled from how the code uses them: a         *)
(* redirect record acts before any guard, the middleware before the        *)
(* plugin's guard, neither acts when the path stays the same, and a path   *)
(* without a route ends on the error page, which the user leaves by        *)
(* loading a page.                                                         *)
(***************************************************************************)
EXTENDS PathStrategy, LocaleDetection

CONSTANTS
  UnknownLocale,          \* a cookie's or a query's value that is no locale
  NoPage, NoTarget, NoAim,
  Headers, Queries        \* what the browser may send

Remembered == Locales \union {NoLocale, UnknownLocale}

\* Route names; the empty one stands for none.
NoName == <<>>
Names ==
  {NoName} \union {<<p>> : p \in Pages} \union {<<"redirect", p>> : p \in Pages}
  \union {<<"localized", p>> : p \in Pages}
  \union {<<"localized", p, l>> : p \in Pages, l \in Locales}

Targets ==
  [by : {"server", "client"}, path : Paths, query : Queries \union {NoLocale}, name : Names]

ASSUME RedirectsAssumption ==
  /\ UnknownLocale \notin Locales
  /\ NoPage \notin Pages
  /\ Headers \subseteq Locales \union {NoLocale}
  /\ Queries \subseteq Remembered
  /\ NoTarget \notin Targets

VARIABLES
  o,         \* the module's options, never changed
  accept,    \* the locale of the Accept-Language header, never changed
  cookie,    \* the locale cookie in the browser
  tab,       \* the document: its path, the name and page of its route, its status
  going,     \* the request or the navigation under way
  locale,    \* useState('i18n-locale')
  shown,     \* the locale of the dictionary
  hops,      \* history: redirects since the user acted
  entered,   \* history: the path the tab was loaded at, until the client navigates
  aim        \* history: the page and locale the user asked the client for

vars == <<o, accept, cookie, tab, going, locale, shown, hops, entered, aim>>

\* What the tab shows while the first page loads.
Blank == [path |-> Bare(Index), name |-> NoName, page |-> NoPage, status |-> "blank"]

AtRest == going = NoTarget
OnPage == AtRest /\ tab.status = "page"

Init ==
  /\ o \in Configs
  /\ accept \in Headers
  /\ cookie \in Remembered
  /\ tab = Blank
  /\ going = NoTarget
  /\ locale = NoLocale /\ shown = NoLocale
  /\ hops = 0 /\ entered = NoPath /\ aim = NoAim

-----------------------------------------------------------------------------
\* The route a path is matched with: of several records, the first one added.
matched(path) ==
  CHOOSE r \in Match(o, path) : \A q \in Match(o, path) : r.order <= q.order

NameAt(path) == IF Match(o, path) = {} THEN NoName ELSE matched(path).name

PageAt(path) == IF Match(o, path) = {} THEN NoPage ELSE matched(path).page

\* The document at a path once the route of that name, or none, is reached.
Document(path, name) ==
  LET pages == {r.page : r \in {r \in RouteTable(o) : r.name = name}}
  IN  [path |-> path, name |-> name,
       page   |-> IF pages = {} THEN NoPage ELSE CHOOSE p \in pages : TRUE,
       status |-> IF pages = {} THEN "error" ELSE "page"]

\* Where redirect records of the router send a path.
RecordTargets(path) == {r.redirect : r \in {r \in Match(o, path) : r.redirect # NoPath}}

\* The cookie after a write; without a name there is none.
setCookie(l) == IF o.localeCookie THEN l ELSE cookie

ReadCookie == IF o.localeCookie THEN cookie ELSE NoLocale

-----------------------------------------------------------------------------
\* The locale the nitro middleware detects for a request.
detected(req) == resolveServerLocale(o, req.path.locale, req.query, ReadCookie, accept)

\* The preferred locale, where autoDetectPath lets it steer this path.
gated(path, preferred) ==
  IF path.locale = NoLocale
     /\ (~shouldAttemptLocaleRedirect(o, path) \/ o.autoDetectPath = "*")
  THEN DefaultLocale ELSE preferred

preferredLocale(req) ==
  gated(req.path, resolvePreferredLocale(o, detected(req), ReadCookie, accept))

\* Mutant of starRewrite: the preferred locale's own prefix is rewritten too.
RewriteAlways(path, preferred) ==
  When(o.autoDetectPath = "*" /\ path.locale # NoLocale,
       IF preferred = DefaultLocale /\ o.strategy = "prefix_except_default"
       THEN Bare(path.rest) ELSE Prefixed(preferred, path.rest))

\* Under autoDetectPath "*" a prefix gives way to the preferred locale.
starRewrite(path, preferred) ==
  When(o.autoDetectPath = "*" /\ path.locale # NoLocale /\ path.locale # preferred,
       IF preferred = DefaultLocale /\ o.strategy = "prefix_except_default"
       THEN Bare(path.rest) ELSE Prefixed(preferred, path.rest))

redirectFrom(path, preferred) ==
  IF ~o.redirects THEN NoPath
  ELSE starRewrite(path, preferred) ?? getClientRedirect(o, path, preferred)

\* Where the server may redirect a request: the plugin and a redirect record
\* of the router both answer, and either may win.
ServerTargets(req) ==
  RecordTargets(req.path) \union ({redirectFrom(req.path, preferredLocale(req))} \ {NoPath})

\* Mutant of syncedCookie: a visit to a prefixed URL is not remembered.
NotSynced(req) == cookie

\* The cookie a request that is not a 404 leaves behind.
syncedCookie(req) ==
  IF ~o.redirects \/ o.autoDetectPath # "*"
  THEN IF req.path.locale = NoLocale THEN cookie ELSE setCookie(req.path.locale)
  ELSE IF starRewrite(req.path, preferredLocale(req)) = NoPath THEN cookie
       ELSE setCookie(preferredLocale(req))

\* The user loads a URL, or reloads the page.
Enter(path, query) ==
  /\ AtRest
  /\ going' = [by |-> "server", path |-> path, query |-> query, name |-> NoName]
  /\ tab' = Blank
  /\ locale' = NoLocale /\ shown' = NoLocale
  /\ hops' = 0 /\ aim' = NoAim
  /\ entered' = path
  /\ UNCHANGED <<o, accept, cookie>>

Requested == going # NoTarget /\ going.by = "server"

\* The plugin answers 404 before anything else.
RespondNotFound ==
  /\ Requested
  /\ shouldReturn404(o, going.path)
  /\ tab' = Document(going.path, NoName)
  /\ going' = NoTarget
  /\ UNCHANGED <<o, accept, cookie, locale, shown, hops, entered, aim>>

\* It redirects; the browser asks again with the cookie of this answer.
RespondRedirect ==
  /\ Requested
  /\ ~shouldReturn404(o, going.path)
  /\ \E target \in ServerTargets(going) : going' = [going EXCEPT !.path = target]
  /\ cookie' = syncedCookie(going)
  /\ hops' = hops + 1
  /\ UNCHANGED <<o, accept, tab, locale, shown, entered, aim>>

\* It renders the page, with the detected locale as state and dictionary; the
\* client takes both over (resolveInitialLocale).
Respond ==
  /\ Requested
  /\ ~shouldReturn404(o, going.path)
  /\ ServerTargets(going) = {}
  /\ tab' = Document(going.path, NameAt(going.path))
  /\ going' = NoTarget
  /\ locale' = detected(going) /\ shown' = locale'
  /\ cookie' = syncedCookie(going)
  /\ UNCHANGED <<o, accept, hops, entered, aim>>

-----------------------------------------------------------------------------
\* The router is asked for a path, or for a route by name (name # NoName); a
\* redirect record acts at once.
Push(path, name) ==
  going' = [by |-> "client", query |-> NoLocale,
            path |-> IF RecordTargets(path) = {} THEN path
                     ELSE CHOOSE t \in RecordTargets(path) : TRUE,
            name |-> IF RecordTargets(path) = {} THEN name ELSE NoName]

\* A link to `path` is followed, with `promise` what it stands for.
Follow(path, promise) ==
  /\ OnPage
  /\ path # tab.path
  /\ Push(path, NoName)
  /\ hops' = 0 /\ aim' = promise /\ entered' = NoPath
  /\ UNCHANGED <<o, accept, cookie, tab, locale, shown>>

\* Whether a route of page p in locale l has a name to itself: two locales that
\* a page with custom paths gives none are both named "localized-p", and the
\* router keeps one of them.
HasOwnName(p, l) ==
  \/ o.strategy = "no_prefix"
  \/ ~getCustomPathsForPage(o, p)
  \/ isCustom(o, p, l)
  \/ o.strategy = "prefix_except_default" /\ l = DefaultLocale
  \/ \A k \in Locales \ {l} :
       \/ isCustom(o, p, k)
       \/ o.only[p] # {} /\ k \notin o.only[p]
       \/ o.strategy = "prefix_except_default" /\ k = DefaultLocale

\* Whether page p exists in locale l.
Exists(p, l) ==
  /\ p \notin o.off
  /\ isLocaleAllowedForUnlocalizedRoute(o, p, l)
  /\ HasOwnName(p, l)

\* Whether its custom path is reached by name from here: "localized-p-l" is
\* resolved without its :locale param, which vue-router then takes from the
\* current route.
ReachedByName(p, l) ==
  \/ o.strategy \in {"no_prefix", "prefix_except_default"}
  \/ ~isCustom(o, p, l)
  \/ tab.path.locale = l

Promise(holds, p, l) == IF holds THEN [page |-> p, locale |-> l] ELSE NoAim

\* Without a prefix a link stays in the current locale.
MayLink(l) == o.strategy # "no_prefix" \/ l = locale

\* $localePath('/p', l) and $localePath({ name: 'p' }, l).  By name a page
\* whose route of the default locale has a custom path takes that path along.
FollowByPath(p, l) ==
  MayLink(l) /\ Follow(localeRouteByPath(o, p, l), Promise(Exists(p, l), p, l))

FollowByName(p, l) ==
  /\ MayLink(l)
  /\ localeRouteByName(o, p, l, tab.path) # NoPath
  /\ Follow(localeRouteByName(o, p, l, tab.path),
            Promise(/\ Exists(p, l)
                    /\ o.strategy = "prefix" =>
                         ReachedByName(p, l) \/ tab.path.locale = NoLocale
                    /\ o.strategy = "prefix_except_default" =>
                         \/ isCustom(o, p, l)
                         \/ ~isCustom(o, p, DefaultLocale) \/ l = DefaultLocale,
                    p, l))

\* A link that was not localized.
FollowRaw(p) == Follow(Bare(p), NoAim)

\* The base of the current route's name, when `state` is the locale state.
baseName(state) == getBaseRouteName(tab.name, getCurrentLocale(o, tab.path, state))

\* $switchLocale(l) has set the state to l before the name is taken apart.
switchTarget(l) == switchLocaleRoute(o, baseName(l), tab.path, l)

\* Whether switching the page to l can be seen.  The base of the name is to be
\* the page's: at the custom path of one locale a switch to another finds, under
\* "no_prefix", the same record again and stays.  And on a page the server
\* rendered in another locale than its route's, a switch to the latter ends where
\* it began, and no guard loads the dictionary.
SwitchIsSeen(l) ==
  /\ Exists(tab.page, l)
  /\ ReachedByName(tab.page, l)
  /\ baseName(l) = <<tab.page>>
  /\ \/ switchTarget(l) # tab.path
     \/ o.strategy = "no_prefix"
     \/ shown = l

\* $switchLocale(l): the state and the cookie first, under "no_prefix" the
\* dictionary too, then the navigation, by name where there is such a route; a
\* path that was built from the current one is matched like any other.
SwitchLocale(l) ==
  LET name == switchLocaleName(o, baseName(l), l)
  IN  /\ OnPage
      /\ IF switchTarget(l) \in {NoPath, tab.path} THEN going' = NoTarget
         ELSE Push(switchTarget(l), IF hasRoute(o, name) THEN name ELSE NoName)
      /\ locale' = l
      /\ cookie' = setCookie(l)
      /\ shown' = IF o.strategy = "no_prefix" THEN l ELSE shown
      /\ hops' = 0 /\ entered' = NoPath
      /\ aim' = Promise(SwitchIsSeen(l), tab.page, l)
      /\ UNCHANGED <<o, accept, tab>>

Navigating == going # NoTarget /\ going.by = "client"

\* The locale of the route decides, or the remembered one where it has none.
routeLocale == getCurrentLocale(o, going.path, locale)

clientRedirect ==
  IF going.path = tab.path THEN NoPath
  ELSE redirectFrom(going.path, gated(going.path, routeLocale))

\* The middleware sends the navigation elsewhere.
RedirectNavigation ==
  /\ Navigating
  /\ clientRedirect # NoPath
  /\ Push(clientRedirect, NoName)
  /\ hops' = hops + 1
  /\ UNCHANGED <<o, accept, cookie, tab, locale, shown, entered, aim>>

\* It led back to where the tab is.
Duplicate ==
  /\ Navigating
  /\ going.path = tab.path
  /\ going' = NoTarget
  /\ UNCHANGED <<o, accept, cookie, tab, locale, shown, hops, entered, aim>>

\* The plugin's guard shows and stores the locale of the route, and the
\* navigation ends on the page, or on the error page when no route matches.
Arrive ==
  /\ Navigating
  /\ going.path # tab.path
  /\ clientRedirect = NoPath
  /\ shown' = routeLocale
  /\ locale' = routeLocale
  /\ cookie' = IF locale = routeLocale THEN cookie ELSE setCookie(routeLocale)
  /\ tab' = Document(going.path,
                     IF going.name # NoName THEN going.name ELSE NameAt(going.path))
  /\ going' = NoTarget
  /\ UNCHANGED <<o, accept, hops, entered, aim>>

Next ==
  \/ \E path \in Paths, query \in Queries : Enter(path, query)
  \/ RespondNotFound
  \/ RespondRedirect
  \/ Respond
  \/ \E p \in Pages, l \in Locales : FollowByPath(p, l)
  \/ \E p \in Pages, l \in Locales : FollowByName(p, l)
  \/ \E p \in Pages : FollowRaw(p)
  \/ \E l \in Locales : SwitchLocale(l)
  \/ RedirectNavigation
  \/ Duplicate
  \/ Arrive

Spec == Init /\ [][Next]_vars

-----------------------------------------------------------------------------
Aims == [page : Pages, locale : Locales]

TypeOK ==
  /\ o \in Configs
  /\ accept \in Headers
  /\ cookie \in Remembered
  /\ tab \in [path : Paths, name : Names, page : Pages \union {NoPage},
              status : {"blank", "page", "error"}]
  /\ going \in Targets \union {NoTarget}
  /\ locale \in Locales \union {NoLocale}
  /\ shown \in Locales \union {NoLocale}
  /\ hops \in Nat
  /\ entered \in Paths \union {NoPath}
  /\ aim \in Aims \union {NoAim}

\* A request or a navigation is redirected at most twice: the redirects of the
\* server, the middleware and the router's records never form a loop
\* (06.redirect.ts:115-135, i18n-redirect.global.ts:54-70).
RedirectsSettle == hops <= 2

\* A link to a page in a locale, or switching to the locale, ends on that page,
\* at the URL the build generates route rules and prerenders for, with that
\* dictionary and that locale state: the names and paths the strategy builds at
\* runtime, the routes of the build and the redirects in between agree.
PromiseKept ==
  AtRest /\ aim # NoAim =>
    /\ tab.status = "page" /\ tab.page = aim.page
    /\ tab.path = resolveLocalizedPath(o, aim.page, aim.locale)
    /\ shown = aim.locale /\ locale = aim.locale

\* The page a link or a switch led to stays when it is loaded again: the server
\* neither answers 404 nor redirects, and serves the same page.  The premise
\* excludes a locale the guard found in the state already, put there by the
\* server from ?locale= or the header: it is not written to the cookie.
ReloadStays ==
  LET again == [path |-> tab.path, query |-> NoLocale]
  IN  AtRest /\ aim # NoAim /\ o.localeCookie /\ cookie = aim.locale =>
        /\ ~shouldReturn404(o, tab.path)
        /\ ServerTargets(again) = {}
        /\ PageAt(tab.path) = aim.page

\* Loaded at a path without a prefix that autoDetectPath does not cover; what it
\* covers is a page's own path, and not a custom one that others redirect to.
DeepLink ==
  /\ o.autoDetectPath = "exact" /\ o.exactPath \in Pages
  /\ entered # NoPath /\ entered.locale = NoLocale /\ entered.rest # o.exactPath

\* Such a path stays where it is or ends at the one URL it has in the default
\* locale, whatever was remembered or the browser prefers, not even a second
\* redirect leads on (06.redirect.ts:105-113, issue 242).  Where that URL has the
\* default's prefix, the page is shown in the default locale; what a page
\* without a prefix is shown in is DeepLinksShowDefault's question.
DeepLinksStay ==
  LET home == buildLocalizedPath(o, resolvePathForLocale(o, entered.rest, DefaultLocale),
                                 DefaultLocale)
  IN  DeepLink /\ AtRest =>
        /\ tab.path \in {entered, home}
        /\ tab.status = "page" /\ tab.path.locale = DefaultLocale =>
             shown = DefaultLocale /\ locale = DefaultLocale

\* The documentation's table for autoDetectPath "/" and a locale cookie: a
\* request for "/about" with the cookie "de" is answered "200, default locale
\* (no rewrite)" (docs/guide/strategy.md:274).
DeepLinksShowDefault ==
  /\ DeepLink /\ AtRest /\ tab.status = "page"
  /\ o.strategy = "prefix_except_default" /\ o.redirects /\ o.exactPath = Index
  /\ o.localeCookie
  => tab.path.locale = NoLocale /\ shown = DefaultLocale /\ locale = DefaultLocale

\* Loading the own path of a page that every locale has, or of a page without
\* localization, ends on that page, with its custom paths and after redirects
\* to whichever locale was preferred (06.redirect.ts:105-107: custom
\* localeRoutes aliases keep working).  The rewrite of "*" puts one locale's
\* prefix before another's custom path, and an autoDetectPath that is a custom
\* path and no page's sends what was redirected there on: both are excluded.
OwnPathServed ==
  /\ AtRest /\ entered # NoPath
  /\ o.redirects /\ entered.locale = NoLocale /\ entered.rest \in Pages
  /\ entered.rest \in o.off \/ \A l \in Locales : Exists(entered.rest, l)
  /\ o.autoDetectPath = "*" => ~getCustomPathsForPage(o, entered.rest)
  /\ o.autoDetectPath = "exact" => o.exactPath \in Pages
  => tab.page = entered.rest

\* A prefixed page the server answered with, at first or after redirects, is
\* remembered as the locale for the next visit (docs/guide/strategy.md:207,
\* 06.redirect.ts:81-88); under "*" the cookie decides and not the URL.
VisitRemembered ==
  /\ AtRest /\ entered # NoPath /\ tab.status = "page" /\ tab.path.locale # NoLocale
  /\ o.localeCookie /\ ~(o.redirects /\ o.autoDetectPath = "*")
  => cookie = tab.path.locale

=============================================================================
