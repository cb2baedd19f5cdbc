--------------------------- MODULE LocaleDetection ---------------------------
(***************************************************************************)
(* Which locale a request gets (packages/utils/src): the nitro middleware  *)
(* and the detector of server routes decide with resolveServerLocale, the  *)
(* redirect plugin with resolvePreferredLocale and                         *)
(* shouldAttemptLocaleRedirect.                                            *)
(*                                                                         *)
(* A cookie or a ?locale= query may hold a value that is no enabled        *)
(* locale.  Of the Accept-Language header only the first enabled locale it *)
(* names matters, NoLocale if there is none.                               *)
(***************************************************************************)
EXTENDS RouteGeneration

\* The header decides when it may and nothing else did.
applyAutoDetectLanguage(o, locale, explicit, accept) ==
  IF o.autoDetectLanguage /\ ~explicit /\ accept # NoLocale THEN accept ELSE locale

\* Mutant of firstValid: a candidate is not looked up in the enabled locales.
FirstGiven(o, candidates, accept) ==
  LET given == {i \in DOMAIN candidates : candidates[i] # NoLocale}
      best  == CHOOSE i \in given : \A j \in given : i <= j
  IN  applyAutoDetectLanguage(o, IF given = {} THEN DefaultLocale ELSE candidates[best],
                              given # {}, accept)

\* The first candidate that is an enabled locale, else the header, else the default.
firstValid(o, candidates, accept) ==
  LET valid == {i \in DOMAIN candidates : candidates[i] \in Locales}
      best  == CHOOSE i \in valid : \A j \in valid : i <= j
  IN  applyAutoDetectLanguage(o, IF valid = {} THEN DefaultLocale ELSE candidates[best],
                              valid # {}, accept)

resolveServerLocale(o, urlLocale, query, cookie, accept) ==
  firstValid(o, <<urlLocale, query, cookie>>, accept)

resolvePreferredLocale(o, state, cookie, accept) ==
  firstValid(o, IF o.autoDetectPath = "*" THEN <<cookie>> ELSE <<state, cookie>>, accept)

\* Mutant of shouldAttemptLocaleRedirect: "exact" means every path without a prefix.
AttemptOnAnyBarePath(o, path) ==
  CASE o.autoDetectPath = "*"         -> TRUE
    [] o.autoDetectPath = "no_prefix" -> path.locale = NoLocale
    [] o.autoDetectPath = "exact"     -> path.locale = NoLocale

\* Whether the remembered locale may steer a redirect from this path.
shouldAttemptLocaleRedirect(o, path) ==
  CASE o.autoDetectPath = "*"         -> TRUE
    [] o.autoDetectPath = "no_prefix" -> path.locale = NoLocale
    [] o.autoDetectPath = "exact"     -> path = Bare(o.exactPath)
=============================================================================
