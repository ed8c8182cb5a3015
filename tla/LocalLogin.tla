----------------------------- MODULE LocalLogin -----------------------------
(***************************************************************************)
(* The browser login against the configuration file                        *)
(* (browser_login_provider = local), and the identities the other          *)
(* endpoints resolve from the same file.                                   *)
(*                                                                         *)
(*   POST /login             find the user, compare the password, issue a  *)
(*                           code for a user key and a tenant id           *)
(*   POST /v1/auth/exchange  find user and tenant again, by what the code  *)
(*                           says, and answer with a token                 *)
(*                                                                         *)
(* Unlike a code of local_iam or Keycloak this one does not carry the      *)
(* identity; it is looked up twice, by different values.  Codes are        *)
(* one-time tickets as in LoginFlow; one at a time is enough here.         *)
(***************************************************************************)
EXTENDS ConfigIdentity

CONSTANT File   \* the configuration files considered

\* What a file may have: a tenant with an id or a key, a user with an id.
FileTenant == [id : NameValue, key : NameValue] \ {NoTenant}

FileUser ==
  [id : UserName, key : UserValue, tid : NameValue, tkey : NameValue,
   password : Secret \cup {NoSecret}]

ASSUME FileAssumption ==
  File \subseteq [tenants : Seq(FileTenant), users : Seq(FileUser),
                  devPassword : Secret \cup {NoSecret},
                  unknownUsers : BOOLEAN, unknownTenants : BOOLEAN]

VARIABLES
  config,    \* the loaded file
  verified,  \* claims of the user whose password was compared
  code,      \* what an outstanding code stands for
  token      \* claims of the token the last exchange answered with

localVars == <<config, verified, code, token>>

NoCode == [user |-> NoUser, tenant |-> NoName]

LocalInit ==
  /\ config \in {Load(f) : f \in File}
  /\ verified = NoClaims
  /\ code = NoCode
  /\ token = NoClaims

\* A user without a password has the shared one; an empty one admits nobody.
Expected(user) ==
  IF user.password # NoSecret THEN user.password ELSE config.devPassword

\* Somebody is found, in a tenant, and it is their password.
Admitted(value, name, password) ==
  LET user == UserFor(config, value, name) IN
    /\ user # Nobody
    /\ Expected(user) = password
    /\ TenantOf(config, user, name) # NoTenant

LoginAsTyped(value, name, password) ==
  LET user == UserFor(config, value, name)
      tenant == TenantOf(config, user, name)
  IN /\ code = NoCode
     /\ Admitted(value, name, password)
     /\ verified' = Claims(user, tenant)
     /\ code' = [user |-> value, tenant |-> tenant.id]
     /\ token' = NoClaims
     /\ UNCHANGED config

\* The form names a username, made a user key, or an `identity' "user|tenant".
Login(value, name, password) ==
  LET user == UserFor(config, value, name)
      tenant == TenantOf(config, user, name)
  IN /\ code = NoCode
     /\ Admitted(value, name, password)
     /\ verified' = Claims(user, tenant)
     /\ code' = [user |-> user.key, tenant |-> tenant.id]
     /\ token' = NoClaims
     /\ UNCHANGED config

\* Status 401, or 400 when the lookup raised.
RefuseLogin(value, name, password) ==
  /\ ~Admitted(value, name, password)
  /\ UNCHANGED localVars

\* NoClaims: the lookup raised, and the answer has status 400.
Exchange ==
  /\ code # NoCode
  /\ token' = ClaimsFor(config, code.user, code.tenant)
  /\ code' = NoCode
  /\ UNCHANGED <<config, verified>>

LocalNext ==
  \/ \E value \in UserValue, name \in NameValue, p \in Secret :
       Login(value, name, p) \/ RefuseLogin(value, name, p)
  \/ Exchange

LocalSpec == LocalInit /\ [][LocalNext]_localVars

-----------------------------------------------------------------------------

Exchanged == code = NoCode /\ verified # NoClaims

\* The token is about the user whose password was compared, whatever the file,
\* as long as no key in it stands for somebody else: the second lookup, by user
\* key and tenant id, finds the same user or nobody (server.py:541-556 and
\* 640-646, config.py:154-182).
SubjectKept ==
  KeysApart(config) /\ Exchanged /\ token # NoClaims => token.sub = verified.sub

\* With a consistent file it is the same in everything, tenant and profile
\* included, and the exchange does not fail (same lines).
IdentityKept == Consistent(config) /\ Exchanged => token = verified

\* A strict file (neither unknown users nor unknown tenants) admits and vouches
\* for nobody who is not in it, by no endpoint and whatever is left out of the
\* request (README.md:460, config.py:139-182).
StrictIsClosed ==
  ~config.unknownUsers /\ ~config.unknownTenants =>
    \A value \in UserValue, name \in NameValue :
      LET claims == ClaimsFor(config, value, name) IN
        claims # NoClaims =>
          /\ claims.profile # 0
          /\ \E i \in DOMAIN config.tenants :
               config.tenants[i] = [id |-> claims.tenantId, key |-> claims.tenantKey]

\* In a consistent file a user of the file is only ever put into the tenant of
\* the entry, however the tenant is named (config.py:154-169, identity.py:54-55).
TenantIsTheEntrys ==
  Consistent(config) =>
    \A value \in UserValue, name \in NameValue :
      LET claims == ClaimsFor(config, value, name) IN
        claims.profile # 0 =>
          LET u == config.users[claims.profile] IN
            claims.tenantId = u.tid /\ claims.tenantKey = u.tkey

\* For every consistent file and every identity it resolves, the contract check
\* passes, and the token for FastReAct, asked for by tenant key, and the token
\* for PSKA, by tenant id, are about one entry (contract.py:26-81).
OneIdentityForBoth ==
  Consistent(config) =>
    \A value \in UserValue, name \in NameValue :
      LET claims == ClaimsFor(config, value, name) IN
        claims # NoClaims =>
          /\ ContractPasses(config, value, name)
          /\ ClaimsFor(config, claims.sub, claims.tenantKey) = claims
          /\ ClaimsFor(config, claims.sub, claims.tenantId) = claims

=============================================================================
