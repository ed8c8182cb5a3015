------------------------------ MODULE Catalog -------------------------------
(***************************************************************************)
(* The administrative side of AuthCatalog in full: the rows of Directory   *)
(* and, with them, the tenant keys, the roles and groups of memberships,   *)
(* the provider account links and the audit trail.  Roles and groups are   *)
(* kept by the same functions in tables of the same shape; both are labels *)
(* here.                                                                   *)
(*                                                                         *)
(* Every operation is one transaction that ends with its audit row.  One   *)
(* whose first statement fails (a foreign key, the unique tenant key) has  *)
(* done nothing and is not enabled; one that fails after it has written    *)
(* something is an action, and Closed says what is left of the writes.     *)
(***************************************************************************)
EXTENDS Directory, SequencesExt

CONSTANTS
  TenantName,  \* strings that name tenants: their ids, and keys
  NoKey,
  Label,       \* roles and groups
  Account,     \* (provider, subject) pairs
  NoOwner,
  SeedKey,     \* tenant keys of the configuration file
  SeedLabels,  \* roles and groups of the configuration file's users
  MaxAudit     \* bound: rows of the audit trail

ASSUME CatalogAssumption ==
  /\ Tenant \subseteq TenantName
  /\ NoKey \notin TenantName
  /\ NoOwner \notin User \X Tenant
  /\ SeedKey \in [SeedTenants -> TenantName]
  /\ SeedLabels \in [SeedMembers -> SUBSET Label]
  /\ MaxAudit \in Nat

VARIABLES
  tenantKey,  \* tenants.tenant_key
  labels,     \* membership_roles and membership_groups
  knownLabels,\* the roles and groups tables
  accounts,   \* provider_accounts
  audit       \* audit_events: <<event type, subject>>

catalogVars == <<directoryVars, tenantKey, labels, knownLabels, accounts, audit>>

CatalogInit ==
  /\ DirectoryInit
  /\ tenantKey = [t \in Tenant |-> NoKey]
  /\ labels = [id \in Identity |-> {}]
  /\ knownLabels = {}
  /\ accounts = [a \in Account |-> NoOwner]
  /\ audit = <<>>

\* The audit rows the transaction appends before it commits.
Record(events) ==
  /\ Len(audit) + Len(events) <= MaxAudit
  /\ audit' = audit \o events

\* (Each write is committed at once.)
WrittenAtOnce(old, new) == new

\* A connection closed without a commit, or left with an exception: SQLite gives
\* up what was written on it.
Closed(old, new) == old

-----------------------------------------------------------------------------
(* Reads *)

KeyFree(t, k) == \A other \in Tenant \ {t} : tenantKey[other] # k

\* _identity_row: a tenant is named by its id or by its key.  The code takes
\* the first of the rows that match.
IdentityRows(u, name) ==
  {id \in {u} \X Tenant : Active(id) /\ name \in {id[2], tenantKey[id[2]]}}

-----------------------------------------------------------------------------
(* Tenants *)

UpsertTenantAnyKey(t, k) ==
  /\ CreateTenant(t)
  /\ tenantKey' = [tenantKey EXCEPT ![t] = k]
  /\ Record(<< <<"tenant.upsert", t>> >>)
  /\ UNCHANGED <<labels, knownLabels, accounts>>

\* tenant_key is UNIQUE, and the upsert catches only a conflict of tenant_id.
\* Without a key the tenant's id becomes its key.
UpsertTenant(t, k) ==
  /\ KeyFree(t, k)
  /\ CreateTenant(t)
  /\ tenantKey' = [tenantKey EXCEPT ![t] = k]
  /\ Record(<< <<"tenant.upsert", t>> >>)
  /\ UNCHANGED <<labels, knownLabels, accounts>>

SetTenantDisabled(t, disabled) ==
  /\ \/ disabled /\ DisableTenant(t) /\ Record(<< <<"tenant.disable", t>> >>)
     \/ ~disabled /\ EnableTenant(t) /\ Record(<< <<"tenant.enable", t>> >>)
  /\ UNCHANGED <<tenantKey, labels, knownLabels, accounts>>

-----------------------------------------------------------------------------
(* Users *)

PasswordRows(u, p) == IF p = NoPassword THEN <<>> ELSE << <<"user.password_set", u>> >>

UpsertUser(u, p) ==
  /\ CreateUser(u, p)
  /\ Record(PasswordRows(u, p) \o << <<"user.upsert", u>> >>)
  /\ UNCHANGED <<tenantKey, labels, knownLabels, accounts>>

\* The row is written before the password is found to be too short.
RefuseUser(u, p) ==
  /\ p \in ShortPassword
  /\ users' = Closed(users, [users EXCEPT ![u] = Upsert(@)])
  /\ UNCHANGED <<tenants, members, credentials, tenantKey, labels, knownLabels, accounts, audit>>

SetUserDisabled(u, disabled) ==
  /\ \/ disabled /\ DisableUser(u) /\ Record(<< <<"user.disable", u>> >>)
     \/ ~disabled /\ EnableUser(u) /\ Record(<< <<"user.enable", u>> >>)
  /\ UNCHANGED <<tenantKey, labels, knownLabels, accounts>>

ResetPassword(u, p) ==
  /\ SetPassword(u, p)
  /\ Record(PasswordRows(u, p))
  /\ UNCHANGED <<tenantKey, labels, knownLabels, accounts>>

-----------------------------------------------------------------------------
(* Memberships, roles and groups *)

SaveMembershipAuditFirst(u, t, L) ==
  /\ Record(<< <<"membership.upsert", <<u, t>> >> >>)
  /\ UNCHANGED <<tenantKey, accounts>>
  /\ \/ /\ AddMembership(u, t)
        /\ labels' = [labels EXCEPT ![<<u, t>>] = L]
        /\ knownLabels' = knownLabels \cup L
     \/ /\ users[u] = "absent" \/ tenants[t] = "absent"
        /\ UNCHANGED <<directoryVars, labels, knownLabels>>

\* add_membership replaces what the membership had.
SaveMembership(u, t, L) ==
  /\ AddMembership(u, t)
  /\ labels' = [labels EXCEPT ![<<u, t>>] = L]
  /\ knownLabels' = knownLabels \cup L
  /\ Record(<< <<"membership.upsert", <<u, t>> >> >>)
  /\ UNCHANGED <<tenantKey, accounts>>

\* The labels stay, for a membership that is added again to replace.
DropMembership(u, t) ==
  /\ RemoveMembership(u, t)
  /\ Record(<< <<"membership.disable", <<u, t>> >> >>)
  /\ UNCHANGED <<tenantKey, labels, knownLabels, accounts>>

\* membership_roles and membership_groups REFERENCE memberships, whose row may
\* be disabled.
GrantLabel(id, l) ==
  /\ members[id] # "absent"
  /\ labels' = [labels EXCEPT ![id] = @ \cup {l}]
  /\ knownLabels' = knownLabels \cup {l}
  /\ Record(<< <<"label.grant", <<id, l>> >> >>)
  /\ UNCHANGED <<directoryVars, tenantKey, accounts>>

\* The role is listed before it is found that there is no such membership.
RefuseLabel(id, l) ==
  /\ members[id] = "absent"
  /\ knownLabels' = Closed(knownLabels, knownLabels \cup {l})
  /\ UNCHANGED <<directoryVars, tenantKey, labels, accounts, audit>>

RevokeNothing(id, l) ==
  /\ Record(<< <<"label.revoke", <<id, l>> >> >>)
  /\ UNCHANGED <<directoryVars, tenantKey, labels, knownLabels, accounts>>

RevokeLabel(id, l) ==
  /\ labels' = [labels EXCEPT ![id] = @ \ {l}]
  /\ Record(<< <<"label.revoke", <<id, l>> >> >>)
  /\ UNCHANGED <<directoryVars, tenantKey, knownLabels, accounts>>

-----------------------------------------------------------------------------
(* Provider accounts and the seed *)

LinkAnyone(a, id) ==
  /\ accounts' = [accounts EXCEPT ![a] = id]
  /\ Record(<< <<"provider.link", a>> >>)
  /\ UNCHANGED <<directoryVars, tenantKey, labels, knownLabels>>

LinkUserOnly(a, id) ==
  /\ users[id[1]] # "absent"
  /\ accounts' = [accounts EXCEPT ![a] = <<id[1]>>]
  /\ Record(<< <<"provider.link", a>> >>)
  /\ UNCHANGED <<directoryVars, tenantKey, labels, knownLabels>>

\* provider_accounts REFERENCES users and tenants, not memberships.
LinkAccount(a, id) ==
  /\ users[id[1]] # "absent"
  /\ tenants[id[2]] # "absent"
  /\ accounts' = [accounts EXCEPT ![a] = id]
  /\ Record(<< <<"provider.link", a>> >>)
  /\ UNCHANGED <<directoryVars, tenantKey, labels, knownLabels>>

\* The rows of the seed, those of the users sorted by kind: the file has the
\* three or two rows of a user together.
SeedRows ==
  LET T == SetToSeq(SeedTenants)
      M == SetToSeq(SeedMembers)
      P == SetToSeq({id \in SeedMembers : SeedPassword[id[1]] # NoPassword})
  IN [i \in DOMAIN T |-> <<"tenant.upsert", T[i]>>]
     \o [i \in DOMAIN P |-> <<"user.password_set", P[i][1]>>]
     \o [i \in DOMAIN M |-> <<"user.upsert", M[i][1]>>]
     \o [i \in DOMAIN M |-> <<"membership.upsert", M[i]>>]

\* Tenant by tenant: those before it in the file have their new key already.
SeedKeysFree ==
  LET file == SetToSeq(SeedTenants) IN
    \A i \in DOMAIN file : \A other \in Tenant \ {file[i]} :
      SeedKey[file[i]] #
        IF \E j \in 1 .. i - 1 : file[j] = other THEN SeedKey[other] ELSE tenantKey[other]

\* The upserts of seed_from_config in one transaction; a tenant key that is
\* taken makes all of them fail.
SeedCatalog ==
  /\ SeedKeysFree
  /\ Seed
  /\ tenantKey' = [t \in Tenant |-> IF t \in SeedTenants THEN SeedKey[t] ELSE tenantKey[t]]
  /\ labels' = [id \in Identity |-> IF id \in SeedMembers THEN SeedLabels[id] ELSE labels[id]]
  /\ knownLabels' = knownLabels \cup UNION {SeedLabels[id] : id \in SeedMembers}
  /\ Record(SeedRows)
  /\ UNCHANGED accounts

\* Some tenants are written before a key is found to be taken, a password to be
\* too short or a tenant to be unknown (and some users, which is left out).
RefuseSeed ==
  /\ ~SeedAccepted \/ ~SeedKeysFree
  /\ \E written \in SUBSET SeedTenants :
       LET file == SetToSeq(written) IN
       /\ tenants' = Closed(tenants,
            [t \in Tenant |-> IF t \in written THEN Upsert(tenants[t]) ELSE tenants[t]])
       /\ tenantKey' = Closed(tenantKey,
            [t \in Tenant |-> IF t \in written THEN SeedKey[t] ELSE tenantKey[t]])
       /\ audit' = Closed(audit,
            audit \o [i \in DOMAIN file |-> <<"tenant.upsert", file[i]>>])
  /\ UNCHANGED <<users, members, credentials, labels, knownLabels, accounts>>

CatalogNext ==
  \/ \E t \in Tenant :
       \/ \E k \in TenantName : UpsertTenant(t, k)
       \/ \E disabled \in BOOLEAN : SetTenantDisabled(t, disabled)
  \/ \E u \in User :
       \/ \E p \in Password \cup {NoPassword} : UpsertUser(u, p)
       \/ \E p \in ShortPassword : RefuseUser(u, p)
       \/ \E disabled \in BOOLEAN : SetUserDisabled(u, disabled)
       \/ \E p \in Password : ResetPassword(u, p)
  \/ \E u \in User, t \in Tenant :
       \/ \E L \in SUBSET Label : SaveMembership(u, t, L)
       \/ DropMembership(u, t)
       \/ \E l \in Label :
            GrantLabel(<<u, t>>, l) \/ RefuseLabel(<<u, t>>, l) \/ RevokeLabel(<<u, t>>, l)
       \/ \E a \in Account : LinkAccount(a, <<u, t>>)
  \/ SeedCatalog
  \/ RefuseSeed

CatalogSpec == CatalogInit /\ [][CatalogNext]_catalogVars

-----------------------------------------------------------------------------

CatalogTypeOK ==
  /\ DirectoryTypeOK
  /\ tenantKey \in [Tenant -> TenantName \cup {NoKey}]
  /\ labels \in [Identity -> SUBSET Label]
  /\ knownLabels \subseteq Label
  /\ accounts \in [Account -> Identity \cup {NoOwner}]
  /\ Len(audit) <= MaxAudit

\* No row refers to a row that is not there, through any sequence of admin
\* calls and re-seeds: memberships, credentials, labels and provider accounts
\* (schema, catalog.py:566-657); labels are also listed in the roles and groups
\* tables, which no foreign key enforces (532-536).
Referential ==
  /\ \A id \in Identity :
       /\ members[id] # "absent" => users[id[1]] # "absent" /\ tenants[id[2]] # "absent"
       /\ labels[id] # {} => members[id] # "absent"
       /\ labels[id] \subseteq knownLabels
  /\ \A u \in User : credentials[u] # NoPassword => users[u] # "absent"
  /\ \A a \in Account :
       accounts[a] # NoOwner =>
         users[accounts[a][1]] # "absent" /\ tenants[accounts[a][2]] # "absent"

\* Two tenants never share a key, so a login finds two identities of a user
\* only where one tenant's key is another tenant's id: then which of the two
\* the login is for depends on the order of the rows (catalog.py:461-483).
LookupUnambiguous ==
  (\A t \in Tenant : tenantKey[t] \notin Tenant \ {t}) =>
    \A u \in User, name \in TenantName : Cardinality(IdentityRows(u, name)) <= 1

\* What a trail says of a row: it is there when it was inserted, and disabled
\* when it was disabled after that and not enabled since.
StatusAfter(trail, insert, disable, enable) ==
  LET inserted == {i \in DOMAIN trail : trail[i] = insert}
      disabled == {j \in DOMAIN trail :
        /\ trail[j] = disable
        /\ \E i \in inserted : i < j
        /\ \A k \in j + 1 .. Len(trail) : trail[k] # enable}
  IN IF inserted = {} THEN "absent" ELSE IF disabled # {} THEN "disabled" ELSE "active"

\* Reading the audit trail gives the status of every row: no change is committed
\* without its audit row and no audit row without its change, failed operations
\* included (catalog.py:80-282).  A membership is inserted and enabled by the
\* same operation.
AuditReplays ==
  /\ \A t \in Tenant :
       tenants[t] = StatusAfter(audit, <<"tenant.upsert", t>>, <<"tenant.disable", t>>,
                                <<"tenant.enable", t>>)
  /\ \A u \in User :
       users[u] = StatusAfter(audit, <<"user.upsert", u>>, <<"user.disable", u>>,
                              <<"user.enable", u>>)
  /\ \A id \in Identity :
       members[id] = StatusAfter(audit, <<"membership.upsert", id>>, <<"membership.disable", id>>,
                                 <<"membership.upsert", id>>)

\* A role or group that was revoked comes back only by a later grant or by
\* adding the membership again, and the trail shows which: every label of a
\* membership was granted, or came with the membership, after it was last
\* revoked (catalog.py:226-228 and 519-530).
LabelsExplained ==
  \A id \in Identity : \A l \in labels[id] :
    \E i \in DOMAIN audit :
      /\ audit[i] \in {<<"label.grant", <<id, l>> >>, <<"membership.upsert", id>>}
      /\ \A j \in i + 1 .. Len(audit) : audit[j] # <<"label.revoke", <<id, l>> >>

=============================================================================
