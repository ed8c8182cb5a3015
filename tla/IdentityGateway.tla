--------------------------- MODULE IdentityGateway --------------------------
(***************************************************************************)
(* The endpoints that answer for an identity named in the request, over    *)
(* the catalog of Directory and the configuration file of ConfigIdentity:  *)
(*                                                                         *)
(*   /v1/token, /v1/headers   a token or trusted headers for the caller    *)
(*   /proxy/{target}/...      the same put on a request sent on            *)
(*                                                                         *)
(* with local_iam, where a user and a tenant that are both named are       *)
(* looked up in the catalog.  The lookup is one transaction; what is       *)
(* answered is made later, while administrators go on.  A server puts the  *)
(* users and tenants of the file into the catalog before its first         *)
(* request; the catalog outlives it.  One request is enough: requests      *)
(* share nothing.                                                          *)
(***************************************************************************)
EXTENDS Directory, Sequences

CONSTANTS
  Config,      \* the loaded configuration
  TenantKey,   \* tenant_key of each tenant of the catalog, never changed here
  NoName, NoUser, NoSecret, DefaultUser, DefaultTenant,
  Target,      \* "fastreact" and "pska", and names of other targets
  Inbound,     \* the sets of header fields callers send
  NoAsk, NoAnswer

ById == INSTANCE ConfigIdentity WITH
  UserName <- User,
  Name <- Tenant \cup {TenantKey[t] : t \in Tenant},
  Secret <- Password

CatalogClaims(id) ==
  ById!Claims([id |-> id[1], key |-> ById!Prefixed(id[1]), profile |-> 0],
              [id |-> id[2], key |-> TenantKey[id[2]]])

ASSUME GatewayAssumption ==
  /\ \A s, t \in Tenant : s # t => {s, TenantKey[s]} \cap {t, TenantKey[t]} = {}
  /\ NoName \notin Tenant \cup {TenantKey[t] : t \in Tenant}
  /\ NoUser \notin User
  /\ \A u \in User \cup {NoUser}, v \in User : u # ById!Prefixed(v)
  /\ \A id \in Identity : NoAnswer # CatalogClaims(id)
  /\ Len(Config.tenants) \in Nat /\ DOMAIN Config.tenants = 1 .. Len(Config.tenants)
  /\ Len(Config.users) \in Nat /\ DOMAIN Config.users = 1 .. Len(Config.users)

VARIABLES
  phase,     \* where the request's thread stands; "down": no server
  ask,       \* the request
  actives,   \* the identities that were active at some time since it began
  answer,    \* the claims it answers with, or sends on
  upstream   \* the header fields sent on, and who made each

gatewayVars == <<phase, ask, actives, answer, upstream>>

Route == {<<"token", "jwt">>, <<"headers", "jwt">>, <<"headers", "trusted_headers">>,
          <<"proxy", "jwt">>, <<"proxy", "trusted_headers">>, <<"proxy", "service_token">>}

\* A user or a tenant may be left out.
Ask == [route : Route, target : Target, user : ById!UserValue, tenant : ById!NameValue]

ActiveIdentities == {id \in Identity : Active(id)}

GatewayInit ==
  /\ DirectoryInit
  /\ phase = "down"
  /\ ask = NoAsk
  /\ actives = {}
  /\ answer = NoAnswer
  /\ upstream = <<>>

\* No request.
NoRequest(p) ==
  /\ phase' = p
  /\ ask' = NoAsk
  /\ actives' = {}
  /\ answer' = NoAnswer
  /\ upstream' = <<>>

\* The constructor seeds; when that raises there is no server.
StartServer ==
  /\ phase = "down"
  /\ Seed
  /\ NoRequest("idle")

\* Ctrl-C, SIGTERM or a crash, in the middle of a request or not.
StopServer ==
  /\ phase # "down"
  /\ NoRequest("down")
  /\ UNCHANGED directoryVars

Begin(a) ==
  /\ phase = "idle"
  /\ phase' = "begun"
  /\ ask' = a
  /\ actives' = ActiveIdentities
  /\ UNCHANGED <<answer, upstream>> /\ UNCHANGED directoryVars

Named(a) == a.user # NoUser /\ a.tenant # NoName

\* The identities a user value and a tenant value stand for in the catalog.
Meant(a) ==
  {id \in Identity : a.user \in {id[1], ById!Prefixed(id[1])}
                       /\ a.tenant \in {id[2], TenantKey[id[2]]}}

FoundThough(a) == Meant(a) \cap {id \in Identity : users[id[1]] = "active" /\ members[id] = "active"}

Found(a) == Meant(a) \cap ActiveIdentities

\* _catalog_identity: only when both are named; raises when it finds nobody.
Resolve ==
  /\ phase = "begun"
  /\ Named(ask)
  /\ \E id \in Found(ask) :
       /\ answer' = CatalogClaims(id)
       /\ phase' = "resolved"
  /\ UNCHANGED <<ask, actives, upstream>> /\ UNCHANGED directoryVars

PassBy ==
  /\ phase = "begun"
  /\ ~Named(ask)
  /\ phase' = "resolved"
  /\ UNCHANGED <<ask, actives, answer, upstream>> /\ UNCHANGED directoryVars

Idle == NoRequest("idle") /\ UNCHANGED directoryVars

\* CatalogError, status 400.
Refuse ==
  /\ phase = "begun"
  /\ Named(ask)
  /\ Found(ask) = {}
  /\ Idle

-----------------------------------------------------------------------------
(* What is answered: the identity of the catalog; when none was looked up, *)
(* and always in service_token mode, the one of the configuration file.    *)

FromFile == answer = NoAnswer \/ ask.route[2] = "service_token"

Identified ==
  IF FromFile THEN ById!ClaimsFor(Config, ask.user, ask.tenant) ELSE answer

\* The lookup in the file raised: status 400.
RefuseUnknown ==
  /\ phase = "resolved"
  /\ Identified = ById!NoClaims
  /\ Idle

Answer ==
  /\ phase = "resolved"
  /\ ask.route[1] # "proxy"
  /\ Identified # ById!NoClaims
  /\ answer' = Identified
  /\ phase' = "answered"
  /\ UNCHANGED <<ask, actives, upstream>> /\ UNCHANGED directoryVars

-----------------------------------------------------------------------------
(* The header fields of a proxied request.  Names are compared without     *)
(* regard to case, but a dict tells spellings apart.                       *)

Family == {"authorization", "fastreact", "pska", "authnode", "hop", "other"}

Item == {"user", "email", "service"}

Field == [family : Family, item : Item, spelling : {"canonical", "lower"}]

Canonical(family, items) == [family : {family}, item : items, spelling : {"canonical"}]

\* Fields without a value are left out; a target of another name gets none.
TrustedFields(target, hasEmail) ==
  IF target \in {"fastreact", "pska"}
    THEN Canonical(target, IF hasEmail THEN {"user", "email"} ELSE {"user"})
    ELSE {}

ServiceFields(target) ==
  IF target \in {"fastreact", "pska"} THEN Canonical(target, {"service"})
  ELSE Canonical("authorization", {"service"})

Injected(hasEmail, hasServiceToken) ==
  CASE ask.route[2] = "jwt" -> Canonical("authorization", {"user"})
    [] ask.route[2] = "trusted_headers" -> TrustedFields(ask.target, hasEmail)
    [] ask.route[2] = "service_token" ->
         TrustedFields(ask.target, hasEmail)
           \cup (IF hasServiceToken THEN ServiceFields(ask.target) ELSE {})

KeptUnlessReplaced(inbound, injected) ==
  {h \in inbound : \A i \in injected : <<h.family, h.item>> # <<i.family, i.item>>}

Kept(inbound, injected) == {h \in inbound : h.family = "other"}

Forward(inbound, hasEmail, hasServiceToken) ==
  LET injected == Injected(hasEmail, hasServiceToken)
  IN /\ phase = "resolved"
     /\ ask.route[1] = "proxy"
     /\ Identified # ById!NoClaims
     /\ answer' = Identified
     /\ upstream' = [h \in Kept(inbound, injected) \cup injected |->
                       IF h \in injected THEN "authnode" ELSE "caller"]
     /\ phase' = "answered"
     /\ UNCHANGED <<ask, actives>> /\ UNCHANGED directoryVars

Finish ==
  /\ phase = "answered"
  /\ Idle

\* Administrators, at any time: on the command line also without a server.
Administer ==
  /\ DirectoryNext
  /\ actives' = IF phase \in {"down", "idle"} THEN {} ELSE actives \cup ActiveIdentities'
  /\ UNCHANGED <<phase, ask, answer, upstream>>

GatewayNext ==
  \/ StartServer \/ StopServer
  \/ \E a \in Ask : Begin(a)
  \/ Resolve \/ PassBy \/ Refuse \/ RefuseUnknown \/ Answer \/ Finish
  \/ \E inbound \in Inbound, hasEmail, hasServiceToken \in BOOLEAN :
       Forward(inbound, hasEmail, hasServiceToken)
  \/ Administer

GatewaySpec == GatewayInit /\ [][GatewayNext]_<<directoryVars, gatewayVars>>

-----------------------------------------------------------------------------

\* Whoever is named together with a tenant is answered for, in whatever mode,
\* only if the catalog had them active in it at some time during the request:
\* a disabled user, tenant or membership closes every one of these endpoints,
\* also the one that takes its headers from the file (server.py:877-910).
FailClosed ==
  phase = "answered" /\ Named(ask) => Meant(ask) \cap actives # {}

\* What the file says of the catalog's tenants and users is what the catalog
\* says, and it may make up users but no tenants that the catalog has.
FileAgrees ==
  LET File(t) == [id |-> t, key |-> TenantKey[t]] IN
  /\ \A i \in DOMAIN Config.users :
       LET u == Config.users[i] IN u.id \in User /\ u.key = ById!Prefixed(u.id)
  /\ \A i \in DOMAIN Config.tenants, t \in Tenant :
       {Config.tenants[i].id, Config.tenants[i].key} \cap {t, TenantKey[t]} # {} =>
         Config.tenants[i] = File(t)
  /\ Config.unknownTenants =>
       \A t \in Tenant : \E i \in DOMAIN Config.tenants : Config.tenants[i] = File(t)

\* And the answer names them, the same in every mode, as they are named in the
\* catalog; where the answer is the file's, for a file that agrees with the
\* catalog (server.py:353-378, 657-688, 877-900, identity.py:111-141).
SameInEveryMode ==
  phase = "answered" /\ Named(ask) /\ (ask.route[2] = "service_token" => FileAgrees) =>
    \E id \in Meant(ask) : [answer EXCEPT !.profile = 0] = CatalogClaims(id)

\* No header field that tells an upstream service who is calling is the
\* caller's, in no spelling, whichever fields are put in its place and whichever
\* are left out for want of a value (server.py:1126-1138).
CallerStripped ==
  \A h \in DOMAIN upstream :
    h.family # "other" => upstream[h] = "authnode"

\* "In Local IAM mode, tenant identity must come from an active membership in
\* the catalog" (contracts/authnode-fastreact-pska.md:31).
FromMembership ==
  phase = "answered" => <<answer.userId, answer.tenantId>> \in actives

=============================================================================
