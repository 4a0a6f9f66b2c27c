-------------------------- MODULE Configuration_proofs --------------------------
(***************************************************************************)
(* Proofs about Configuration: keys stay apart for every set of base URLs  *)
(* and every history of the environment.                                   *)
(***************************************************************************)
EXTENDS Configuration, TLAPS

(* A configuration the validators have let pass, now or at some time.  The *)
(* override does not matter here: it decides about test keys only, and for *)
(* them the rest of the validation is enough.                              *)
Passed(c) ==
    /\ c.key = "live" => c.url = DEFAULT_BASE_URL
    /\ c.key = "test" => c.url.host = "local" \/ c.url = IntegrationURL

ClientInv == client # Unset => Passed(client)

SentInv == sent # Unset => Passed(sent)

Inv == TypeOK /\ ClientInv /\ SentInv

-----------------------------------------------------------------------------
(* The constants of the code, and what Unset is not. *)

LEMMA KnownURLs == DEFAULT_BASE_URL \in BaseURL /\ IntegrationURL \in BaseURL
  BY DEF DEFAULT_BASE_URL, IntegrationURL, BaseURL, Schemes, Hosts, Extras

LEMMA Given ==
  ASSUME NEW url \in BaseURLs \cup {Unset}
  PROVE  OrDefault(url) \in BaseURL
  BY KnownURLs, BaseURLsAssumption DEF OrDefault

LEMMA InitInv == Init => Inv
  BY DEF Init, Inv, TypeOK, ClientInv, SentInv

(* Making a client, from arguments or from the environment. *)
LEMMA MadeClient ==
  ASSUME Inv, NEW key \in Keys, NEW url \in BaseURLs \cup {Unset}, Make(key, url)
  PROVE  Inv'
<1>1. client' = [key |-> key, url |-> OrDefault(url)] /\ UNCHANGED <<env, sent>>
  BY DEF Make
<1>2. /\ key = "live" => OrDefault(url) = DEFAULT_BASE_URL
      /\ key = "test" => OrDefault(url).host = "local" \/ OrDefault(url) = IntegrationURL
  BY DEF Make, Accepts, Approved
<1>3. client' \in ConfigOf /\ Passed(client')
  BY <1>1, <1>2, Given DEF Passed, ConfigOf
<1> QED
  BY <1>1, <1>3 DEF Inv, TypeOK, ClientInv, SentInv, env

(* One step of the program or of its environment. *)
LEMMA StepInv == Inv /\ [Next]_vars => Inv'
<1> SUFFICES ASSUME Inv, [Next]_vars
             PROVE  Inv'
  OBVIOUS
<1> USE DEF Inv
<1>1. ASSUME NEW key \in Keys, NEW url \in BaseURLs \cup {Unset}, New(key, url)
      PROVE  Inv'
  BY <1>1, MadeClient DEF New
<1>2. CASE FromEnv
  <2>1. envKey \in Keys /\ envURL \in BaseURLs \cup {Unset}
    BY <1>2 DEF FromEnv, TypeOK
  <2> QED
    BY <1>2, <2>1, MadeClient DEF FromEnv
<1>3. ASSUME NEW auth \in BOOLEAN, Send(auth)
      PROVE  Inv'
  <2>1. client \in ConfigOf /\ Passed(client)
    BY <1>3 DEF Send, TypeOK, ClientInv
  <2>2. sent' = [key |-> IF auth THEN client.key ELSE Unset, url |-> client.url]
    BY <1>3 DEF Send
  <2>3. Unset # "live" /\ Unset # "test"
    BY BaseURLsAssumption DEF Keys
  <2>4. sent' \in [key: Keys \cup {Unset}, url: BaseURL] /\ Passed(sent')
    BY <2>1, <2>2, <2>3 DEF ConfigOf, Passed
  <2> QED
    BY <1>3, <2>4 DEF Send, TypeOK, ClientInv, SentInv, env
<1>4. CASE SetEnv
  BY <1>4 DEF SetEnv, TypeOK, ClientInv, SentInv
<1>5. CASE UNCHANGED vars
  BY <1>5 DEF vars, TypeOK, ClientInv, SentInv
<1> QED
  BY <1>1, <1>2, <1>3, <1>4, <1>5 DEF Next

LEMMA Invariance == Spec => []Inv
  BY InitInv, StepInv, PTL DEF Spec

-----------------------------------------------------------------------------
(* Type correctness: environment, configurations and requests keep their   *)
(* shape; in particular a client always has a URL (client.py:54-56).       *)
THEOREM TypeCorrect == Spec => []TypeOK
<1>1. Inv => TypeOK
  BY DEF Inv
<1> QED
  BY <1>1, Invariance, PTL

(* Whatever the configured URLs and however the environment changes, a     *)
(* live key is sent to the production API only and a test key never to the *)
(* production host (config.py:87-99).                                      *)
THEOREM KeysAreKeptApart == Spec => []KeysStayApart
<1>1. Inv => KeysStayApart
  <2>1. IntegrationURL.host = "integration"
    BY DEF IntegrationURL
  <2> QED
    BY <2>1 DEF Inv, SentInv, Passed, KeysStayApart
<1> QED
  BY <1>1, Invariance, PTL
================================================================================
