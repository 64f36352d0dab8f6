------------------------------ MODULE Session ------------------------------
(***************************************************************************)
(* The settings of the SDK (src/config/default.config.ts, the build        *)
(* parameters of src/models/MerchantSDK.ts) and the calls of the core API  *)
(* that keep their session in them (AuthenticationController.ts,           *)
(* HTTPHelper.ts).  A key stands for those that are treated alike: "web3"  *)
(* for the required parameters, "network" for the optional ones, "apiUrl"  *)
(* for the settings build() knows nothing of.                              *)
(***************************************************************************)
CONSTANTS Logins,        \* calls of authenticate()
          Requests       \* calls of getRequest() and postRequest()

Session == {"pmaUserToken", "pmaApiKey"}
BuildKeys == {"web3", "network"}
Keys == BuildKeys \cup {"apiUrl"} \cup Session
Calls == Logins \cup Requests
Falsy == {"undefined", "null"}

VARIABLES stored,        \* DefaultConfig._settings
          phase,         \* what a call waits for, or how it has ended
          accepted       \* external: the logins the server has accepted

sessionVars == <<stored, phase, accepted>>

\* The getter builds an object of the keys it lists, some with a default.
Settings(k) == IF k \in Session THEN "undefined"
               ELSE IF k \in {"network", "apiUrl"} /\ stored[k] \in Falsy
                    THEN "default" ELSE stored[k]
Has(k) == Settings(k) \notin Falsy

\* The setter merges into the stored settings.
Merge(params) == stored' = [k \in Keys |-> IF k \in DOMAIN params THEN params[k]
                                           ELSE stored[k]]

\* An assignment to a key of Settings changes the object built for it.
Assign(k, v) == UNCHANGED stored

SessionInit ==
    /\ stored = [k \in Keys |-> IF k = "web3" THEN "null" ELSE "undefined"]
    /\ phase = [c \in Calls |-> "idle"]
    /\ accepted = {}

Goto(c, to) == phase' = [phase EXCEPT ![c] = to]
Step(c, from, to) == phase[c] = from /\ Goto(c, to)

-----------------------------------------------------------------------------
(* build(): an optional parameter that is missing is null, and no other key *)
(* gets through.                                                            *)
Build == /\ \E web3 \in {"given", "undefined"}, network \in {"given", "null"} :
               Merge([web3 |-> web3, network |-> network])
         /\ UNCHANGED <<phase, accepted>>

\* authenticate() asks for a user token.
Login(c) == c \in Logins /\ Step(c, "idle", "login") /\ UNCHANGED <<stored, accepted>>

(* The server returns a token, which the settings are to keep; without an   *)
(* API key there one is asked for.                                          *)
LoginAccepted(c) ==
    /\ Assign("pmaUserToken", "token")
    /\ IF ~Has("pmaUserToken") THEN Step(c, "login", "rejected")
       ELSE IF Has("pmaApiKey") THEN Step(c, "login", "ok")
       ELSE Step(c, "login", "apikey")
    /\ accepted' = accepted \cup {c}

\* No token: null is returned, and taking it apart throws.
LoginRefused(c) == Step(c, "login", "rejected") /\ UNCHANGED <<stored, accepted>>

\* The API key, or null, is to be kept, and the login has succeeded.
ApiKey(c) == /\ Step(c, "apikey", "ok")
             /\ \E key \in {"key", "null"} : Assign("pmaApiKey", key)
             /\ UNCHANGED accepted

(* getRequest() and postRequest() need both, ask for an access token and    *)
(* then for the answer; an error is part of the answer.                     *)
Request(c) == /\ c \in Requests
              /\ Step(c, "idle", IF Has("pmaApiKey") /\ Has("pmaUserToken")
                                 THEN "access" ELSE "noSession")
              /\ UNCHANGED <<stored, accepted>>
AccessToken(c) == /\ Step(c, "access", "request") \/ Step(c, "access", "invalid")
                  /\ UNCHANGED <<stored, accepted>>
Response(c) == Step(c, "request", "ok") /\ UNCHANGED <<stored, accepted>>

SessionNext ==
    \/ Build
    \/ \E c \in Calls : \/ Login(c) \/ LoginAccepted(c) \/ LoginRefused(c)
                        \/ ApiKey(c) \/ Request(c) \/ AccessToken(c) \/ Response(c)

SessionSpec == SessionInit /\ [][SessionNext]_sessionVars

-----------------------------------------------------------------------------
(* A login the server accepts returns the user token                        *)
(* (AuthenticationController.ts:93).                                        *)
AcceptedLoginSucceeds == \A c \in accepted : phase[c] # "rejected"
=============================================================================
