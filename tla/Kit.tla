-------------------------------- MODULE Kit --------------------------------
(***************************************************************************)
(* What the cove-auth kit makes of an application's environment: its       *)
(* health report, the address requireCoveAccess asks Cove at, and where    *)
(* the proxy sends a signed-out person.  Three readings of the same        *)
(* variables; the state is the environment, once it is known.              *)
(***************************************************************************)

VARIABLE deployed   \* the environment looked at, if any

\* A value is missing or blank, no http(s) address, one with credentials, or good.
Values == {"unset", "bad", "odd", "good"}

Environments ==
  [reference : {"good", "bad"},       \* exactly one of id and slug
   keys      : BOOLEAN,               \* both Clerk keys
   legacy    : BOOLEAN,               \* satellite settings of version 1.0
   accessApi : Values, primary : Values, publicPrimary : Values, signIn : Values,
   health    : {"unset", "bad", "good"},
   reachable : BOOLEAN]               \* Cove's health address answers 2xx

\* assertHttpUrl
IsHttp(value) == value \in {"odd", "good"}

Either(first, second) == IF first # "unset" THEN first ELSE second

\* COVE_PRIMARY_URL counts before its public twin, good or not.
Primary(e) == Either(e.primary, e.publicPrimary)

\* resolveAccessApiUrl; an address under the primary one has its credentials.
\* None of its answers but "good" passes assertAccessApiUrl.
AccessApi(e) == Either(e.accessApi, Primary(e))

\* The sign-in address under the primary one, when there is none of its own.
SignInPage(e) ==
  IF e.signIn # "unset" THEN e.signIn
  ELSE IF IsHttp(Primary(e)) THEN "good" ELSE "unset"

\* collectCoveAuthHealth's ping.
Pings(e) ==
  e.reachable /\ (e.health = "good" \/ (e.health = "unset" /\ IsHttp(Primary(e))))

\* Mutant: the checks without that of the access address.
FailingButAccess(e) ==
  {check \in {"application_reference", "clerk_keys", "shared_parent_session",
              "cove_primary_url", "clerk_sign_in_url", "cove_reachability"} :
     CASE check = "application_reference" -> e.reference # "good"
       [] check = "clerk_keys"            -> ~e.keys
       [] check = "shared_parent_session" -> e.legacy
       [] check = "cove_primary_url"      -> ~IsHttp(Primary(e))
       [] check = "clerk_sign_in_url"     -> ~IsHttp(SignInPage(e))
       [] OTHER                           -> ~Pings(e)}

\* inspectCoveAuthConfiguration and the ping: the checks that fail.
Failing(e) ==
  {check \in {"application_reference", "clerk_keys", "shared_parent_session", "cove_primary_url",
              "clerk_sign_in_url", "canonical_access_api", "cove_reachability"} :
     CASE check = "application_reference" -> e.reference # "good"
       [] check = "clerk_keys"            -> ~e.keys
       [] check = "shared_parent_session" -> e.legacy
       [] check = "cove_primary_url"      -> ~IsHttp(Primary(e))
       [] check = "clerk_sign_in_url"     -> ~IsHttp(SignInPage(e))
       [] check = "canonical_access_api"  -> AccessApi(e) # "good"
       [] OTHER                           -> ~Pings(e)}

Health(e) == IF Failing(e) = {} THEN "ready" ELSE "needs_attention"

\* requireCoveAccess, before it asks: a request body and an address, or a
\* configuration error.
AsksCove(e) == e.reference = "good" /\ AccessApi(e) = "good"

\* createCoveProxy: its options throw on a primary address that is none.
ProxyStands(e) == e.signIn # "unset" \/ Primary(e) = "unset" \/ IsHttp(Primary(e))
SendsToSignIn(e) == IF ProxyStands(e) THEN SignInPage(e) ELSE "unset"

KitInit == deployed = {}
Deploy == deployed = {} /\ \E e \in Environments : deployed' = {e}
-----------------------------------------------------------------------------
\* A deployment whose health is "ready" is guarded: every protected operation
\* gets to ask Cove, at an address without credentials, and the proxy stands
\* and has an address to send the signed-out to.
ReadyMeansGuarded ==
  \A e \in deployed : Health(e) = "ready" =>
    AsksCove(e) /\ ProxyStands(e) /\ IsHttp(SendsToSignIn(e))
=============================================================================
