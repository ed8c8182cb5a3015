--------------------------- MODULE ConfigIdentity ---------------------------
(***************************************************************************)
(* Who a user value and a tenant value stand for, by the configuration     *)
(* file alone: the loading of tenants and users, tenant_for and user_for   *)
(* of AuthNodeConfig, and the claims and trusted headers made from them.   *)
(* Pure operators; LocalLogin and IdentityGateway use them.                *)
(*                                                                         *)
(* A user value is a bare name u or "pska:u", here Prefixed(u).  The key   *)
(* of an entry may be either, also the id of another entry; its id is      *)
(* bare.  A tenant value is a name, which may be the id of one tenant and  *)
(* the key of another.  The profile of an identity (name, e-mail, roles,   *)
(* groups) is the place of its entry in the file, and 0 for a user the     *)
(* file does not have.                                                     *)
(***************************************************************************)
EXTENDS Naturals, SequencesExt

CONSTANTS
  UserName,
  Name,                        \* tenant ids and keys
  Secret,                      \* passwords
  NoUser, NoName, NoSecret,    \* the empty strings
  DefaultUser, DefaultTenant   \* user_primary, tenant_default

BareUser == UserName \cup {DefaultUser}

TenantName == Name \cup {DefaultTenant}

Prefixed(u) == <<"pska", u>>

\* No bare name begins with the prefix, and no name is empty.
ASSUME NameAssumption ==
  /\ \A u \in BareUser \cup {NoUser}, v \in BareUser : u # Prefixed(v)
  /\ NoUser \notin BareUser
  /\ NoName \notin TenantName

UserValue == UserName \cup {Prefixed(u) : u \in UserName} \cup {NoUser}

NameValue == Name \cup {NoName}

FirstName(n, m) == IF n = NoName THEN m ELSE n

-----------------------------------------------------------------------------
(* The file: tenants [id, key] and users [id, key, tid, tkey, password],   *)
(* each field NoName, NoUser or NoSecret when the entry leaves it out.     *)

LoadTenant(t) ==
  LET id == FirstName(t.id, t.key) IN [id |-> id, key |-> FirstName(t.key, id)]

\* Of several tenants with one id (or key) the dict keeps the last.
ListedTenant(tenants, name) ==
  LET byId == SelectLastInSeq(tenants, LAMBDA t : t.id = name)
      byKey == SelectLastInSeq(tenants, LAMBDA t : t.key = name)
      unlisted == FirstName(name, DefaultTenant)
  IN CASE byId # 0 -> tenants[byId]
       [] byId = 0 /\ byKey # 0 -> tenants[byKey]
       [] OTHER -> [id |-> unlisted, key |-> unlisted]

\* What the entry says of its tenant is kept literally, the rest filled in.
LoadUser(u, i, tenants) ==
  LET tenant == ListedTenant(tenants, FirstName(u.tid, u.tkey))
  IN [id |-> u.id, key |-> IF u.key = NoUser THEN Prefixed(u.id) ELSE u.key,
      tid |-> FirstName(u.tid, tenant.id), tkey |-> FirstName(u.tkey, tenant.key),
      password |-> u.password, profile |-> i]

Load(file) ==
  LET tenants == [i \in DOMAIN file.tenants |-> LoadTenant(file.tenants[i])]
  IN [file EXCEPT !.tenants = tenants,
        !.users = [i \in DOMAIN file.users |-> LoadUser(file.users[i], i, tenants)]]

-----------------------------------------------------------------------------
(* tenant_for and user_for; NoTenant and Nobody stand for the ValueError.  *)

NoTenant == [id |-> NoName, key |-> NoName]

Nobody == [id |-> NoUser, key |-> NoUser, tid |-> NoName, tkey |-> NoName,
           password |-> NoSecret, profile |-> 0]

TenantWithId(t, name) == name \in {NoName, t.id}

\* Ids and keys are never empty: an empty name is that of the first tenant.
TenantNamed(t, name) == name \in {NoName, t.id, t.key}

KnownTenant(config, name) == SelectInSeq(config.tenants, LAMBDA t : TenantNamed(t, name))

TenantFor(config, name) ==
  LET known == KnownTenant(config, name)
      unlisted == FirstName(name, DefaultTenant)
  IN IF known # 0 THEN config.tenants[known]
     ELSE IF config.unknownTenants THEN [id |-> unlisted, key |-> unlisted]
     ELSE NoTenant

AnyTenants(u, name) == TRUE

NamedByKey(u, name) == name \in {NoName, u.tkey}

NamedById(u, name) == name \in {NoName, u.tid}

\* The users of the named tenant, by what their entries say.
Candidate(u, name) == name \in {NoName, u.tid, u.tkey}

\* The first candidate of that key or id, for an empty value the first one.
KnownUser(config, value, name) ==
  SelectInSeq(config.users, LAMBDA u : Candidate(u, name) /\ value \in {NoUser, u.key, u.id})

UnknownId(value) ==
  IF value = NoUser THEN DefaultUser ELSE IF value \in UserName THEN value ELSE value[2]

\* allow_unknown_users: a user of the given name, with the shared dev password.
UnknownUser(config, value, name) ==
  LET tenant == TenantFor(config, name)
      id == UnknownId(value)
  IN [id |-> id, key |-> Prefixed(id), tid |-> tenant.id, tkey |-> tenant.key,
      password |-> config.devPassword, profile |-> 0]

UserOrUnknown(config, value, name) ==
  LET known == KnownUser(config, value, name)
  IN IF known # 0 THEN config.users[known] ELSE UnknownUser(config, value, name)

UserFor(config, value, name) ==
  LET known == KnownUser(config, value, name)
      refused == TenantFor(config, name) = NoTenant
  IN IF name # NoName /\ refused THEN Nobody
     ELSE IF known # 0 THEN config.users[known]
     ELSE IF config.unknownUsers /\ ~refused THEN UnknownUser(config, value, name)
     ELSE Nobody

-----------------------------------------------------------------------------
(* issue_identity_token and trusted_headers_for_user.                      *)

Claims(user, tenant) ==
  [sub |-> user.key, userId |-> user.id, tenantId |-> tenant.id,
   tenantKey |-> tenant.key, profile |-> user.profile]

NoClaims == Claims(Nobody, NoTenant)

TenantOf(config, user, name) == TenantFor(config, FirstName(name, user.tid))

ClaimsFor(config, value, name) ==
  LET user == UserFor(config, value, name)
      tenant == TenantOf(config, user, name)
  IN IF Nobody = user \/ NoTenant = tenant THEN NoClaims ELSE Claims(user, tenant)

\* FastReAct is told the user key and the tenant key, PSKA the ids.
HeadersFor(config, value, name) ==
  LET claims == ClaimsFor(config, value, name)
  IN [fastreact |-> [user |-> claims.sub, tenant |-> claims.tenantKey, profile |-> claims.profile],
      pska |-> [user |-> claims.userId, tenant |-> claims.tenantId,
                subject |-> claims.sub, profile |-> claims.profile]]

-----------------------------------------------------------------------------
(* The offline part of check_contract, for a value and a name that resolve. *)

ContractPasses(config, value, name) ==
  LET user == UserFor(config, value, name)
      tenant == TenantOf(config, user, name)
      fastreact == ClaimsFor(config, user.key, tenant.key)
      pska == ClaimsFor(config, user.key, tenant.id)
      headers == HeadersFor(config, user.key, tenant.id)
  IN /\ NoClaims \notin {fastreact, pska}
     /\ fastreact.sub = user.key /\ pska.sub = user.key
     /\ fastreact.tenantKey = tenant.key
     /\ pska.tenantId = tenant.id
     /\ headers.fastreact.user = user.key
     /\ headers.fastreact.tenant = tenant.key
     /\ headers.pska.user = user.id
     /\ headers.pska.tenant = tenant.id

-----------------------------------------------------------------------------
(* What a configuration has to be like for its identities to be told apart. *)

\* No name belongs to two tenants of the file.
Unambiguous(config) ==
  \A i, j \in DOMAIN config.tenants :
    i # j => {config.tenants[i].id, config.tenants[i].key}
               \cap {config.tenants[j].id, config.tenants[j].key} = {}

\* A user's tenant id and key are those of one tenant, of the file or of none.
Agreeing(config) ==
  \A i \in DOMAIN config.users :
    LET u == config.users[i] IN
      \/ \E j \in DOMAIN config.tenants : config.tenants[j] = [id |-> u.tid, key |-> u.tkey]
      \/ /\ u.tid = u.tkey
         /\ \A j \in DOMAIN config.tenants :
              u.tid \notin {config.tenants[j].id, config.tenants[j].key}

\* Nobody's key stands for somebody else: it has the prefix, or it is no other
\* entry's id and there are no unknown users.
KeysApart(config) ==
  \A i \in DOMAIN config.users :
    LET key == config.users[i].key IN
      key \in UserName =>
        /\ ~config.unknownUsers
        /\ \A j \in DOMAIN config.users : config.users[j].id = key => config.users[j].key = key

\* A user's key is its id with the prefix.
KeyedById(config) ==
  \A i \in DOMAIN config.users : config.users[i].key = Prefixed(config.users[i].id)

Consistent(config) == Unambiguous(config) /\ Agreeing(config) /\ KeyedById(config)

=============================================================================
