----------------------------- MODULE Configuration -----------------------------
(***************************************************************************)
(* Where API keys go: the validation of ZentureConfig (config.py), the two *)
(* ways of making a client (client.py), and the URL and headers of its     *)
(* requests (_transport/base.py).  The environment may change between any  *)
(* two calls, also after a client has been made from it.                   *)
(*                                                                         *)
(* A base URL is what urlsplit tells of it, as far as the validation asks. *)
(* A host is one of those the code knows, or "other"; a port makes another *)
(* origin of a host, and every URL is lower case and without a final "/"   *)
(* by the time it is compared.                                             *)
(***************************************************************************)
CONSTANTS
    BaseURLs,    \* the base URLs a caller may configure
    Unset        \* an environment variable or an argument that is not given

Schemes == {"http", "https", "ftp"}
Hosts   == {"production", "integration", "local", "other", "none"}
Extras  == {"nothing", "port", "path", "credentials", "query"}

BaseURL == [scheme: Schemes, host: Hosts, extra: Extras]

(* zt_live_..., zt_test_..., anything else *)
Keys == {"live", "test", "malformed"}

ASSUME BaseURLsAssumption == BaseURLs \subseteq BaseURL /\ Unset \notin BaseURL \cup Keys

DEFAULT_BASE_URL == [scheme |-> "https", host |-> "production", extra |-> "nothing"]
IntegrationURL   == [scheme |-> "https", host |-> "integration", extra |-> "nothing"]

VARIABLES
    envKey,      \* ZENTURE_API_KEY
    envURL,      \* ZENTURE_BASE_URL
    override,    \* ZENTURE_SDK_ALLOW_NON_PROD_BASE_URL is "1"
    client,      \* the configuration of the client
    sent         \* the last request: its URL and the key in its Authorization header

env  == <<envKey, envURL, override>>
vars == <<envKey, envURL, override, client, sent>>

ConfigOf == [key: Keys, url: BaseURL]

TypeOK ==
    /\ envKey \in Keys \cup {Unset}
    /\ envURL \in BaseURLs \cup {Unset}
    /\ override \in BOOLEAN
    /\ client \in ConfigOf \cup {Unset}
    /\ sent \in [key: Keys \cup {Unset}, url: BaseURL] \cup {Unset}

Init ==
    /\ envKey = Unset /\ envURL = Unset /\ override = FALSE
    /\ client = Unset /\ sent = Unset

-----------------------------------------------------------------------------
(* The validation. *)

(* _validate_base_url *)
WellFormed(url) ==
    /\ url.scheme \in {"http", "https"}
    /\ url.host # "none"
    /\ url.extra \notin {"credentials", "query", "path"}
    /\ url.scheme = "http" => url.host = "local"

(* Mutated form: the override approves of everything. *)
ApprovedByOverride(url) == override

(* _is_approved_non_production_origin *)
Approved(url) == override /\ (url.host = "local" \/ url = IntegrationURL)

(* The validators of one configuration, all of which have to agree.  The   *)
(* base URL is always given: client and environment fill in the default.   *)
Accepts(key, url) ==
    /\ key \in {"live", "test"}
    /\ WellFormed(url)
    /\ key = "live" => url = DEFAULT_BASE_URL
    /\ key = "test" => url # DEFAULT_BASE_URL /\ Approved(url)

OrDefault(url) == IF url = Unset THEN DEFAULT_BASE_URL ELSE url

-----------------------------------------------------------------------------
(* Making a client.  What is rejected raises, and leaves things as they are.*)

(* Mutated form: the client keeps the URL as given, not as validated. *)
MakeAsGiven(key, url) ==
    /\ Accepts(key, OrDefault(url))
    /\ client' = [key |-> key, url |-> url]
    /\ UNCHANGED <<env, sent>>

Make(key, url) ==
    /\ Accepts(key, OrDefault(url))
    /\ client' = [key |-> key, url |-> OrDefault(url)]
    /\ UNCHANGED <<env, sent>>

(* Zenture(api_key=..., base_url=...) *)
New(key, url) == Make(key, url)

(* Zenture.from_env: load_config_from_env validates what is in the         *)
(* environment, and __init__ at once validates the same again.             *)
FromEnv ==
    /\ envKey # Unset
    /\ Make(envKey, envURL)

(* build_url and default_headers: the URL is absolute, so that the base    *)
(* URL of an injected httpx client has no say.                             *)
Send(auth) ==
    /\ client # Unset
    /\ sent' = [key |-> IF auth THEN client.key ELSE Unset, url |-> client.url]
    /\ UNCHANGED <<env, client>>

-----------------------------------------------------------------------------
(* The process changes its environment (external).                         *)
SetEnv ==
    /\ \/ envKey' \in Keys \cup {Unset} /\ UNCHANGED <<envURL, override>>
       \/ envURL' \in BaseURLs \cup {Unset} /\ UNCHANGED <<envKey, override>>
       \/ override' = ~override /\ UNCHANGED <<envKey, envURL>>
    /\ UNCHANGED <<client, sent>>

Next ==
    \/ \E key \in Keys, url \in BaseURLs \cup {Unset} : New(key, url)
    \/ FromEnv
    \/ \E auth \in BOOLEAN : Send(auth)
    \/ SetEnv

Spec == Init /\ [][Next]_vars

-----------------------------------------------------------------------------
(* Safety. *)

(* A live key leaves the process for the production API only, over https,  *)
(* and a test key never reaches the production host, under any spelling of *)
(* its URL: config.py:87-99 compares URLs, not hosts.  This holds whatever *)
(* the arguments and the environment are, and whenever it changes.         *)
KeysStayApart ==
    sent # Unset =>
        /\ sent.key = "live" => sent.url = DEFAULT_BASE_URL
        /\ sent.key = "test" => sent.url.host \in {"integration", "local"}
================================================================================
