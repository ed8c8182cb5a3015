-------------------------- MODULE DirectoryProofs ---------------------------
(***************************************************************************)
(* Proofs about the two specifications over Directory, for every value of  *)
(* their constants: IdentityGateway, with every configuration file and     *)
(* every set of header fields callers may send, and Catalog, with any      *)
(* number of users, tenants, labels and accounts and any length of the     *)
(* audit trail.                                                            *)
(***************************************************************************)
EXTENDS IdentityGateway, Catalog, FiniteSetTheorems, WellFoundedInduction, TLAPS

-----------------------------------------------------------------------------
(* The gateway.                                                            *)

\* While a request is open, whoever is active is among the actives; once it is
\* past the lookup, so is one of those it names.
GatewayInv ==
  /\ phase \notin {"down", "idle"} => ActiveIdentities \subseteq actives
  /\ phase \in {"resolved", "answered"} /\ Named(ask) => Meant(ask) \cap actives # {}

LEMMA InitGateway == GatewayInit => GatewayInv /\ CallerStripped
  BY DEF GatewayInit, GatewayInv, CallerStripped

\* What is active and what is meant depend on the directory and the request.
LEMMA SameIdentities ==
  /\ UNCHANGED directoryVars => UNCHANGED ActiveIdentities
  /\ UNCHANGED ask => UNCHANGED <<Named(ask), Meant(ask)>>
  BY DEF directoryVars, ActiveIdentities, Active, Named, Meant

\* A server that has no request, for it starts, is through with one or stops.
LEMMA NoRequestInv ==
  ASSUME NEW p \in {"down", "idle"}, NoRequest(p)
  PROVE  GatewayInv' /\ CallerStripped'
  BY DEF NoRequest, GatewayInv, CallerStripped

LEMMA ForwardStrips ==
  ASSUME NEW inbound, NEW hasEmail, NEW hasServiceToken,
         Forward(inbound, hasEmail, hasServiceToken)
  PROVE  CallerStripped'
<1> DEFINE injected == Injected(hasEmail, hasServiceToken)
<1> HIDE DEF injected
<1>1. upstream' = [h \in Kept(inbound, injected) \cup injected |->
                     IF h \in injected THEN "authnode" ELSE "caller"]
  BY DEF Forward, injected
<1>2. \A h \in Kept(inbound, injected) : h.family = "other"
  BY DEF Kept
<1> QED
  BY <1>1, <1>2 DEF CallerStripped

LEMMA StepGateway ==
  ASSUME GatewayInv, CallerStripped, [GatewayNext]_<<directoryVars, gatewayVars>>
  PROVE  GatewayInv' /\ CallerStripped'
<1>1. ASSUME NEW a \in Ask, Begin(a)
      PROVE  GatewayInv' /\ CallerStripped'
  BY <1>1, SameIdentities DEF Begin, GatewayInv, CallerStripped
<1>2. CASE Resolve
  <2>1. PICK id \in Found(ask) : phase' = "resolved"
    BY <1>2 DEF Resolve
  <2>2. id \in Meant(ask) /\ id \in actives
    BY <1>2, <2>1 DEF Resolve, Found, GatewayInv
  <2>3. UNCHANGED <<ActiveIdentities, Meant(ask), actives, upstream>>
    BY <1>2, SameIdentities DEF Resolve
  <2> QED
    BY <1>2, <2>2, <2>3 DEF Resolve, GatewayInv, CallerStripped
<1>3. CASE PassBy
  BY <1>3, SameIdentities DEF PassBy, GatewayInv, CallerStripped
<1>4. CASE StartServer \/ StopServer \/ Refuse \/ RefuseUnknown \/ Finish
  BY <1>4, NoRequestInv DEF StartServer, StopServer, Refuse, RefuseUnknown, Finish, Idle
<1>5. CASE Answer
  BY <1>5, SameIdentities DEF Answer, GatewayInv, CallerStripped
<1>6. ASSUME NEW inbound \in Inbound, NEW hasEmail \in BOOLEAN, NEW hasServiceToken \in BOOLEAN,
             Forward(inbound, hasEmail, hasServiceToken)
      PROVE  GatewayInv' /\ CallerStripped'
  <2>1. GatewayInv'
    BY <1>6, SameIdentities DEF Forward, GatewayInv
  <2> QED
    BY <1>6, <2>1, ForwardStrips
<1>7. CASE Administer
  BY <1>7, SameIdentities DEF Administer, GatewayInv, CallerStripped
<1>8. CASE UNCHANGED <<directoryVars, gatewayVars>>
  <2>1. UNCHANGED <<ActiveIdentities, Meant(ask), Named(ask), phase, actives, upstream>>
    BY <1>8, SameIdentities DEF gatewayVars
  <2> QED
    BY <2>1 DEF GatewayInv, CallerStripped
<1> QED
  BY <1>1, <1>2, <1>3, <1>4, <1>5, <1>6, <1>7, <1>8 DEF GatewayNext

LEMMA InvHolds == GatewaySpec => [](GatewayInv /\ CallerStripped)
  BY InitGateway, StepGateway, PTL DEF GatewaySpec

\* A disabled user, tenant or membership closes the endpoints: whoever a
\* request names with a tenant is answered for only if they were active in it
\* at some time during the request (server.py:353-378, 877-910).
THEOREM ClosedWhenDisabled == GatewaySpec => []FailClosed
<1>1. GatewayInv => FailClosed
  BY DEF GatewayInv, FailClosed
<1> QED
  BY <1>1, InvHolds, PTL

\* Whatever a caller sends, no identity header of theirs reaches an upstream
\* service (server.py:1126-1138).
THEOREM CallersAreStripped == GatewaySpec => []CallerStripped
  BY InvHolds, PTL

-----------------------------------------------------------------------------
(* What the configuration file says of a user and a tenant that are named. *)

LEMMA LeastIs ==
  ASSUME NEW I \in SUBSET Nat, I # {}
  PROVE  ById!Min(I) \in I
<1>1. PICK x \in I : \A y \in I : ~(<<y, x>> \in OpToRel(<, Nat))
  BY NatLessThanWellFounded, WFMin
<1>2. ASSUME NEW y \in I PROVE x <= y
  <2>1. x \in Nat /\ y \in Nat
    OBVIOUS
  <2>2. y < x => <<y, x>> \in OpToRel(<, Nat)
    BY <2>1 DEF OpToRel
  <2>3. ~(y < x)
    BY <1>1, <2>2
  <2> QED
    BY <2>1, <2>3
<1> QED
  BY <1>2 DEF ById!Min

LEMMA FirstUser ==
  ASSUME NEW value, NEW name
  PROVE  LET k == ById!KnownUser(Config, value, name) IN
           \/ k = 0
           \/ k \in DOMAIN Config.users /\ value \in {NoUser, Config.users[k].key, Config.users[k].id}
<1> DEFINE I == {i \in 1 .. Len(Config.users) :
                   /\ ById!Candidate(Config.users[i], name)
                   /\ value \in {NoUser, Config.users[i].key, Config.users[i].id}}
<1>1. ById!KnownUser(Config, value, name) = IF I # {} THEN ById!Min(I) ELSE 0
  BY DEF ById!KnownUser, ById!SelectInSeq
<1>2. I \in SUBSET Nat /\ DOMAIN Config.users = 1 .. Len(Config.users)
  BY GatewayAssumption DEF GatewayAssumption
<1>3. I # {} => ById!Min(I) \in I
  BY <1>2, LeastIs
<1> QED
  BY <1>1, <1>2, <1>3

LEMMA FirstTenant ==
  ASSUME NEW name
  PROVE  LET k == ById!KnownTenant(Config, name) IN
           \/ k = 0 /\ \A i \in DOMAIN Config.tenants : ~ById!TenantNamed(Config.tenants[i], name)
           \/ k # 0 /\ k \in DOMAIN Config.tenants /\ ById!TenantNamed(Config.tenants[k], name)
<1> DEFINE I == {i \in 1 .. Len(Config.tenants) : ById!TenantNamed(Config.tenants[i], name)}
<1>1. ById!KnownTenant(Config, name) = IF I # {} THEN ById!Min(I) ELSE 0
  BY DEF ById!KnownTenant, ById!SelectInSeq
<1>2. I \in SUBSET Nat /\ DOMAIN Config.tenants = 1 .. Len(Config.tenants)
  BY GatewayAssumption DEF GatewayAssumption
<1>3. I # {} => ById!Min(I) \in I
  BY <1>2, LeastIs
<1>4. 0 \notin I
  OBVIOUS
<1> QED
  BY <1>1, <1>2, <1>3, <1>4

\* A file that agrees with the catalog names whom the catalog names.
LEMMA FileNames ==
  ASSUME FileAgrees, NEW a \in Ask, Named(a),
         ById!ClaimsFor(Config, a.user, a.tenant) # ById!NoClaims
  PROVE  \E id \in Meant(a) :
           [ById!ClaimsFor(Config, a.user, a.tenant) EXCEPT !.profile = 0] = CatalogClaims(id)
<1> DEFINE value == a.user
           name == a.tenant
           user == ById!UserFor(Config, value, name)
           tenant == ById!TenantFor(Config, name)
           k == ById!KnownUser(Config, value, name)
           n == ById!KnownTenant(Config, name)
<1>1. /\ value \in User \cup {ById!Prefixed(u) : u \in User}
      /\ name \in Tenant \cup {TenantKey[t] : t \in Tenant}
      /\ value # NoUser /\ name # NoName
  BY DEF Ask, Named, ById!UserValue, ById!NameValue
<1>2. /\ user # ById!Nobody /\ tenant # ById!NoTenant
      /\ ById!ClaimsFor(Config, value, name) = ById!Claims(user, tenant)
  BY <1>1 DEF ById!ClaimsFor, ById!TenantOf, ById!FirstName
<1>3. PICK t \in Tenant : name \in {t, TenantKey[t]}
  BY <1>1
<1>4. \A u \in User, v \in User : u # ById!Prefixed(v) /\ (ById!Prefixed(u) = ById!Prefixed(v) => u = v)
  BY GatewayAssumption DEF GatewayAssumption, ById!Prefixed
<1>5. tenant = [id |-> t, key |-> TenantKey[t]]
  <2>1. \/ n = 0 /\ \A i \in DOMAIN Config.tenants : ~ById!TenantNamed(Config.tenants[i], name)
        \/ n # 0 /\ n \in DOMAIN Config.tenants /\ ById!TenantNamed(Config.tenants[n], name)
    BY FirstTenant
  <2>2. tenant = IF n # 0 THEN Config.tenants[n]
                 ELSE IF Config.unknownTenants THEN [id |-> name, key |-> name] ELSE ById!NoTenant
    BY <1>1 DEF ById!TenantFor, ById!FirstName
  <2> HIDE DEF n, tenant
  <2>3. CASE n = 0
    <3>1. Config.unknownTenants
      BY <1>2, <2>2, <2>3
    <3>2. PICK i \in DOMAIN Config.tenants : Config.tenants[i] = [id |-> t, key |-> TenantKey[t]]
      BY <3>1 DEF FileAgrees
    <3>3. ById!TenantNamed(Config.tenants[i], name)
      BY <1>3, <3>2 DEF ById!TenantNamed
    <3> QED
      BY <2>1, <2>3, <3>3
  <2>4. CASE n # 0
    <3>1. name \in {Config.tenants[n].id, Config.tenants[n].key}
      BY <1>1, <2>1, <2>4 DEF ById!TenantNamed
    <3> QED
      BY <1>3, <2>1, <2>2, <2>4, <3>1 DEF FileAgrees
  <2> QED
    BY <2>3, <2>4
<1>6. PICK u \in User : value \in {u, ById!Prefixed(u)} /\ user.id = u /\ user.key = ById!Prefixed(u)
  <2>1. k = 0 \/ (k \in DOMAIN Config.users /\ value \in {NoUser, Config.users[k].key, Config.users[k].id})
    BY FirstUser
  <2>2. user = IF k # 0 THEN Config.users[k] ELSE ById!UnknownUser(Config, value, name)
    BY <1>2 DEF ById!UserFor
  <2> HIDE DEF k
  <2>3. CASE k # 0
    <3>1. k \in DOMAIN Config.users /\ value \in {Config.users[k].key, Config.users[k].id}
      BY <1>1, <2>1, <2>3
    <3>2. Config.users[k].id \in User /\ Config.users[k].key = ById!Prefixed(Config.users[k].id)
      BY <3>1 DEF FileAgrees
    <3>3. user = Config.users[k]
      BY <2>2, <2>3
    <3> HIDE DEF user, value
    <3> QED
      BY <3>1, <3>2, <3>3
  <2>4. CASE k = 0
    <3>1. /\ user.id = ById!UnknownId(value)
          /\ user.key = ById!Prefixed(ById!UnknownId(value))
      BY <2>2, <2>4 DEF ById!UnknownUser
    <3>2. ASSUME NEW u \in User, value \in {u, ById!Prefixed(u)} PROVE ById!UnknownId(value) = u
      <4>1. CASE value = u
        BY <1>1, <3>2, <4>1 DEF ById!UnknownId
      <4>2. CASE value = ById!Prefixed(u)
        <5>1. value \notin User /\ value[2] = u
          BY <1>4, <4>2 DEF ById!Prefixed
        <5> QED
          BY <1>1, <5>1 DEF ById!UnknownId
      <4> QED
        BY <3>2, <4>1, <4>2
    <3>3. PICK u \in User : value \in {u, ById!Prefixed(u)}
      BY <1>1
    <3> QED
      BY <3>1, <3>2, <3>3
  <2> QED
    BY <2>3, <2>4
<1>7. <<u, t>> \in Meant(a)
  BY <1>3, <1>6 DEF Meant, Identity
<1>8. [ById!Claims(user, tenant) EXCEPT !.profile = 0] = CatalogClaims(<<u, t>>)
  <2> HIDE DEF user, tenant
  <2> QED
    BY <1>5, <1>6 DEF CatalogClaims, ById!Claims
<1> QED
  BY <1>2, <1>7, <1>8

-----------------------------------------------------------------------------
(* The answer through the request.                                         *)

Agreed(a) == \E id \in Meant(a) : answer = CatalogClaims(id)

AnswerInv ==
  /\ phase \notin {"down", "idle"} => ask \in Ask
  /\ phase = "resolved" /\ Named(ask) => Agreed(ask)
  /\ SameInEveryMode

LEMMA SameMeaning ==
  /\ UNCHANGED ask => UNCHANGED <<Named(ask), Meant(ask)>>
  /\ UNCHANGED <<ask, answer>> => UNCHANGED Agreed(ask)
  BY DEF Named, Meant, Agreed

\* What is identified for a request that is past its lookup.
LEMMA IdentifiedIs ==
  ASSUME AnswerInv, phase = "resolved", Named(ask), Identified # ById!NoClaims,
         ask.route[2] = "service_token" => FileAgrees
  PROVE  \E id \in Meant(ask) : [Identified EXCEPT !.profile = 0] = CatalogClaims(id)
<1>1. PICK id \in Meant(ask) : answer = CatalogClaims(id)
  BY DEF AnswerInv, Agreed
<1>2. id \in Identity
  BY <1>1 DEF Meant
<1>3. CASE ask.route[2] = "service_token"
  <2>1. Identified = ById!ClaimsFor(Config, ask.user, ask.tenant) /\ FileAgrees /\ ask \in Ask
    BY <1>3 DEF Identified, FromFile, AnswerInv
  <2> QED
    BY <2>1, FileNames
<1>4. CASE ask.route[2] # "service_token"
  <2>1. Identified = answer
    BY <1>1, <1>2, <1>4, GatewayAssumption DEF Identified, FromFile, GatewayAssumption
  <2>2. [CatalogClaims(id) EXCEPT !.profile = 0] = CatalogClaims(id)
    BY DEF CatalogClaims, ById!Claims
  <2> QED
    BY <1>1, <2>1, <2>2
<1> QED
  BY <1>3, <1>4

LEMMA NoRequestAnswer ==
  ASSUME NEW p \in {"down", "idle"}, NoRequest(p)
  PROVE  AnswerInv'
  BY DEF NoRequest, AnswerInv, SameInEveryMode

LEMMA GivenAnswer ==
  ASSUME AnswerInv, phase = "resolved", Identified # ById!NoClaims,
         answer' = Identified, phase' = "answered", UNCHANGED ask
  PROVE  AnswerInv'
<1>1. ASSUME Named(ask), ask.route[2] = "service_token" => FileAgrees
      PROVE  \E id \in Meant(ask) : [answer' EXCEPT !.profile = 0] = CatalogClaims(id)
  BY <1>1, IdentifiedIs
<1>2. SameInEveryMode'
  BY <1>1, SameMeaning DEF SameInEveryMode
<1> QED
  BY <1>2 DEF AnswerInv

LEMMA StepAnswer ==
  ASSUME AnswerInv, [GatewayNext]_<<directoryVars, gatewayVars>>
  PROVE  AnswerInv'
<1>1. ASSUME NEW a \in Ask, Begin(a) PROVE AnswerInv'
  BY <1>1 DEF Begin, AnswerInv, SameInEveryMode
<1>2. CASE Resolve
  <2>1. PICK id \in Found(ask) : answer' = CatalogClaims(id)
    BY <1>2 DEF Resolve
  <2>2. Agreed(ask)' /\ phase' = "resolved" /\ UNCHANGED ask /\ phase = "begun"
    BY <1>2, <2>1, SameMeaning DEF Resolve, Found, Agreed
  <2> QED
    BY <2>2 DEF AnswerInv, SameInEveryMode
<1>3. CASE PassBy
  BY <1>3, SameMeaning DEF PassBy, AnswerInv, SameInEveryMode
<1>4. CASE StartServer \/ StopServer \/ Refuse \/ RefuseUnknown \/ Finish
  BY <1>4, NoRequestAnswer DEF StartServer, StopServer, Refuse, RefuseUnknown, Finish, Idle
<1>5. CASE Answer
  BY <1>5, GivenAnswer DEF Answer
<1>6. ASSUME NEW inbound \in Inbound, NEW hasEmail \in BOOLEAN, NEW hasServiceToken \in BOOLEAN,
             Forward(inbound, hasEmail, hasServiceToken)
      PROVE  AnswerInv'
  BY <1>6, GivenAnswer DEF Forward
<1>7. CASE Administer \/ UNCHANGED <<directoryVars, gatewayVars>>
  <2>1. UNCHANGED <<phase, ask, answer>>
    BY <1>7 DEF Administer, gatewayVars
  <2> QED
    BY <2>1, SameMeaning DEF AnswerInv, SameInEveryMode
<1> QED
  BY <1>1, <1>2, <1>3, <1>4, <1>5, <1>6, <1>7 DEF GatewayNext

\* Token, headers and proxy name the same person in every mode, as the catalog
\* does; in service_token mode, for every file that agrees with the catalog
\* (server.py:353-378, 657-688, 877-900).
THEOREM ModesAgree == GatewaySpec => []SameInEveryMode
<1>1. GatewayInit => AnswerInv
  BY DEF GatewayInit, AnswerInv, SameInEveryMode
<1>2. AnswerInv => SameInEveryMode
  BY DEF AnswerInv
<1> QED
  BY <1>1, <1>2, StepAnswer, PTL DEF GatewaySpec

-----------------------------------------------------------------------------
(* The catalog: types and references.                                      *)

USE SeedAssumption, CatalogAssumption DEF SeedAssumption, CatalogAssumption

RowTypes ==
  /\ DirectoryTypeOK
  /\ tenantKey \in [Tenant -> TenantName \cup {NoKey}]
  /\ labels \in [Identity -> SUBSET Label]
  /\ knownLabels \subseteq Label
  /\ accounts \in [Account -> Identity \cup {NoOwner}]

CatalogInv == RowTypes /\ Referential

\* Rows are not deleted.
RowsKept ==
  /\ \A u \in User : users[u] # "absent" => users'[u] # "absent"
  /\ \A t \in Tenant : tenants[t] # "absent" => tenants'[t] # "absent"
  /\ \A id \in Identity : members[id] # "absent" => members'[id] # "absent"

\* A membership row that appears is of a user and a tenant that are there.
NewMembersFounded ==
  \A id \in Identity :
    members[id] = "absent" /\ members'[id] # "absent" =>
      users'[id[1]] # "absent" /\ tenants'[id[2]] # "absent"

NewPasswordsFounded ==
  \A u \in User : credentials'[u] # credentials[u] => users'[u] # "absent"

LEMMA DirectorySteps ==
  ASSUME DirectoryTypeOK, DirectoryNext
  PROVE  DirectoryTypeOK' /\ RowsKept /\ NewMembersFounded /\ NewPasswordsFounded
<1> DEFINE Goal == DirectoryTypeOK' /\ RowsKept /\ NewMembersFounded /\ NewPasswordsFounded
<1> USE DEF DirectoryTypeOK, Status, Upsert, SetFlag, RowsKept, NewMembersFounded,
            NewPasswordsFounded
<1>1. ASSUME NEW t \in Tenant, CreateTenant(t) \/ DisableTenant(t) \/ EnableTenant(t)
      PROVE  Goal
  BY <1>1 DEF CreateTenant, DisableTenant, EnableTenant
<1>2. ASSUME NEW u \in User, NEW p \in Password \cup {NoPassword}, CreateUser(u, p)
      PROVE  Goal
  BY <1>2 DEF CreateUser
<1>3. ASSUME NEW u \in User, DisableUser(u) \/ EnableUser(u)
      PROVE  Goal
  BY <1>3 DEF DisableUser, EnableUser
<1>4. ASSUME NEW u \in User, NEW p \in Password, SetPassword(u, p)
      PROVE  Goal
  BY <1>4 DEF SetPassword
<1>5. ASSUME NEW u \in User, NEW t \in Tenant, AddMembership(u, t)
      PROVE  Goal
  BY <1>5 DEF AddMembership, Identity
<1>6. ASSUME NEW u \in User, NEW t \in Tenant, RemoveMembership(u, t)
      PROVE  Goal
  BY <1>6 DEF RemoveMembership, Identity
<1>7. CASE Seed
  <2>1. DirectoryTypeOK' /\ RowsKept
    BY <1>7 DEF Seed, SeedUsers, Identity
  <2>2. ASSUME NEW id \in Identity, members[id] = "absent", members'[id] # "absent"
        PROVE  users'[id[1]] # "absent" /\ tenants'[id[2]] # "absent"
    <3>1. id \in SeedMembers /\ id[1] \in User /\ id[2] \in Tenant /\ id[1] \in SeedUsers
      BY <1>7, <2>2 DEF Seed, SeedUsers, Identity
    <3>2. users'[id[1]] # "absent"
      BY <1>7, <3>1 DEF Seed
    <3>3. id[2] \in SeedTenants \/ tenants[id[2]] # "absent"
      BY <1>7, <3>1 DEF Seed, SeedAccepted
    <3>4. tenants'[id[2]] # "absent"
      BY <1>7, <3>1, <3>3 DEF Seed
    <3> QED
      BY <3>2, <3>4
  <2>3. NewPasswordsFounded
    BY <1>7 DEF Seed
  <2> QED
    BY <2>1, <2>2, <2>3
<1> QED
  BY <1>1, <1>2, <1>3, <1>4, <1>5, <1>6, <1>7 DEF DirectoryNext

Refused ==
  \/ \E u \in User, p \in ShortPassword : RefuseUser(u, p)
  \/ \E u \in User, t \in Tenant, l \in Label : RefuseLabel(<<u, t>>, l)
  \/ RefuseSeed

\* An operation that fails leaves nothing, whatever it had written.
LEMMA RefusedIsNothing == Refused => UNCHANGED catalogVars
  BY DEF Refused, RefuseUser, RefuseLabel, RefuseSeed, Closed, catalogVars, directoryVars

LEMMA InitCatalog == CatalogInit => CatalogInv
<1> SUFFICES ASSUME CatalogInit PROVE CatalogInv
  OBVIOUS
<1>1. RowTypes
  BY DEF CatalogInit, DirectoryInit, RowTypes, DirectoryTypeOK, Status
<1>2. Referential
  BY DEF CatalogInit, DirectoryInit, Referential
<1> QED
  BY <1>1, <1>2 DEF CatalogInv

\* A step of the directory that keeps labels and accounts, or gives labels to a
\* membership that is there and an account to a user and a tenant that are.
LEMMA StepReferential ==
  ASSUME CatalogInv, RowTypes',
         RowsKept, NewMembersFounded, NewPasswordsFounded,
         knownLabels \subseteq knownLabels',
         \A id \in Identity :
           \/ labels'[id] \subseteq labels[id]
           \/ members'[id] # "absent" /\ labels'[id] \subseteq knownLabels',
         \A a \in Account :
           \/ accounts'[a] = accounts[a]
           \/ users'[accounts'[a][1]] # "absent" /\ tenants'[accounts'[a][2]] # "absent"
  PROVE  Referential'
<1> USE DEF CatalogInv, RowsKept
<1>1. ASSUME NEW id \in Identity
      PROVE  /\ members'[id] # "absent" =>
                  users'[id[1]] # "absent" /\ tenants'[id[2]] # "absent"
             /\ labels'[id] # {} => members'[id] # "absent"
             /\ labels'[id] \subseteq knownLabels'
  <2>1. id[1] \in User /\ id[2] \in Tenant
    BY DEF Identity
  <2>2. members'[id] # "absent" => users'[id[1]] # "absent" /\ tenants'[id[2]] # "absent"
    BY <2>1 DEF NewMembersFounded, Referential
  <2>3. (labels'[id] # {} => members'[id] # "absent") /\ labels'[id] \subseteq knownLabels'
    <3>1. CASE labels'[id] \subseteq labels[id]
      BY <3>1 DEF Referential
    <3>2. CASE members'[id] # "absent" /\ labels'[id] \subseteq knownLabels'
      BY <3>2
    <3> QED
      BY <3>1, <3>2
  <2> QED
    BY <2>2, <2>3
<1>2. ASSUME NEW u \in User PROVE credentials'[u] # NoPassword => users'[u] # "absent"
  BY DEF NewPasswordsFounded, Referential
<1>3. ASSUME NEW a \in Account, accounts'[a] # NoOwner
      PROVE  users'[accounts'[a][1]] # "absent" /\ tenants'[accounts'[a][2]] # "absent"
  <2>1. CASE accounts'[a] = accounts[a]
    <3>1. accounts[a] \in Identity
      BY <1>3, <2>1 DEF RowTypes
    <3>2. accounts[a][1] \in User /\ accounts[a][2] \in Tenant
      BY <3>1 DEF Identity
    <3>3. users[accounts[a][1]] # "absent" /\ tenants[accounts[a][2]] # "absent"
      BY <1>3, <2>1 DEF Referential
    <3> QED
      BY <2>1, <3>2, <3>3
  <2>2. CASE accounts'[a] # accounts[a]
    BY <2>2
  <2> QED
    BY <2>1, <2>2
<1> QED
  BY <1>1, <1>2, <1>3 DEF Referential

\* A step of the directory with which nothing or only tenant keys change.
LEMMA StepDirectory ==
  ASSUME CatalogInv, DirectoryNext \/ UNCHANGED directoryVars,
         tenantKey' \in [Tenant -> TenantName \cup {NoKey}],
         UNCHANGED <<labels, knownLabels, accounts>>
  PROVE  CatalogInv'
<1>1. DirectoryTypeOK' /\ RowsKept /\ NewMembersFounded /\ NewPasswordsFounded
  <2>1. CASE DirectoryNext
    BY <2>1, DirectorySteps DEF CatalogInv, RowTypes
  <2>2. CASE UNCHANGED directoryVars
    BY <2>2 DEF CatalogInv, RowTypes, DirectoryTypeOK, RowsKept, NewMembersFounded,
       NewPasswordsFounded, directoryVars
  <2> QED
    BY <2>1, <2>2
<1>2. RowTypes'
  BY <1>1 DEF CatalogInv, RowTypes
<1>3. Referential'
  BY <1>1, <1>2, StepReferential
<1> QED
  BY <1>2, <1>3 DEF CatalogInv

LEMMA StepCatalog ==
  ASSUME CatalogInv, [CatalogNext]_catalogVars
  PROVE  CatalogInv'
<1>0. RowTypes /\ DirectoryTypeOK
  BY DEF CatalogInv, RowTypes
<1>1. ASSUME NEW t \in Tenant, NEW k \in TenantName, UpsertTenant(t, k)
      PROVE  CatalogInv'
  <2>1. DirectoryNext
    BY <1>1 DEF UpsertTenant, DirectoryNext
  <2>2. tenantKey' \in [Tenant -> TenantName \cup {NoKey}]
    BY <1>0, <1>1 DEF UpsertTenant, RowTypes
  <2> QED
    BY <1>1, <2>1, <2>2, StepDirectory DEF UpsertTenant
<1>2. ASSUME NEW t \in Tenant, NEW disabled \in BOOLEAN, SetTenantDisabled(t, disabled)
      PROVE  CatalogInv'
  <2>1. DirectoryNext
    BY <1>2 DEF SetTenantDisabled, DirectoryNext
  <2> QED
    BY <1>0, <1>2, <2>1, StepDirectory DEF SetTenantDisabled, RowTypes
<1>3. ASSUME NEW u \in User, NEW p \in Password \cup {NoPassword}, UpsertUser(u, p)
      PROVE  CatalogInv'
  <2>1. DirectoryNext
    BY <1>3 DEF UpsertUser, DirectoryNext
  <2> QED
    BY <1>0, <1>3, <2>1, StepDirectory DEF UpsertUser, RowTypes
<1>4. ASSUME NEW u \in User, NEW disabled \in BOOLEAN, SetUserDisabled(u, disabled)
      PROVE  CatalogInv'
  <2>1. DirectoryNext
    BY <1>4 DEF SetUserDisabled, DirectoryNext
  <2> QED
    BY <1>0, <1>4, <2>1, StepDirectory DEF SetUserDisabled, RowTypes
<1>5. ASSUME NEW u \in User, NEW p \in Password, ResetPassword(u, p)
      PROVE  CatalogInv'
  <2>1. DirectoryNext
    BY <1>5 DEF ResetPassword, DirectoryNext
  <2> QED
    BY <1>0, <1>5, <2>1, StepDirectory DEF ResetPassword, RowTypes
<1>6. ASSUME NEW u \in User, NEW t \in Tenant, DropMembership(u, t)
      PROVE  CatalogInv'
  <2>1. DirectoryNext
    BY <1>6 DEF DropMembership, DirectoryNext
  <2> QED
    BY <1>0, <1>6, <2>1, StepDirectory DEF DropMembership, RowTypes
<1>7. ASSUME NEW u \in User, NEW t \in Tenant, NEW L \in SUBSET Label, SaveMembership(u, t, L)
      PROVE  CatalogInv'
  <2>1. DirectoryNext
    BY <1>7 DEF SaveMembership, DirectoryNext
  <2>2. DirectoryTypeOK' /\ RowsKept /\ NewMembersFounded /\ NewPasswordsFounded
    BY <1>0, <2>1, DirectorySteps
  <2>3. RowTypes'
    BY <1>0, <1>7, <2>2 DEF SaveMembership, RowTypes, Identity
  <2>4. members'[<<u, t>>] # "absent"
    BY <1>0, <1>7 DEF SaveMembership, AddMembership, DirectoryTypeOK, Identity
  <2>5. \A id \in Identity :
          \/ labels'[id] \subseteq labels[id]
          \/ members'[id] # "absent" /\ labels'[id] \subseteq knownLabels'
    BY <1>0, <1>7, <2>4 DEF SaveMembership, RowTypes
  <2>6. knownLabels \subseteq knownLabels' /\ UNCHANGED accounts
    BY <1>7 DEF SaveMembership
  <2>7. Referential'
    BY <2>2, <2>3, <2>5, <2>6, StepReferential
  <2> QED
    BY <2>3, <2>7 DEF CatalogInv
<1>8. ASSUME UNCHANGED directoryVars
      PROVE  DirectoryTypeOK' /\ RowsKept /\ NewMembersFounded /\ NewPasswordsFounded
  BY <1>0, <1>8 DEF DirectoryTypeOK, RowsKept, NewMembersFounded, NewPasswordsFounded,
     directoryVars
<1>9. ASSUME NEW u \in User, NEW t \in Tenant, NEW l \in Label,
             GrantLabel(<<u, t>>, l) \/ RevokeLabel(<<u, t>>, l)
      PROVE  CatalogInv'
  <2>1. <<u, t>> \in Identity
    BY DEF Identity
  <2>2. UNCHANGED directoryVars /\ UNCHANGED <<tenantKey, accounts>>
    BY <1>9 DEF GrantLabel, RevokeLabel
  <2>3. RowTypes'
    BY <1>0, <1>8, <1>9, <2>1, <2>2 DEF GrantLabel, RevokeLabel, RowTypes
  <2>4. knownLabels \subseteq knownLabels'
    BY <1>9 DEF GrantLabel, RevokeLabel
  <2>5. ASSUME NEW id \in Identity
        PROVE  \/ labels'[id] \subseteq labels[id]
               \/ members'[id] # "absent" /\ labels'[id] \subseteq knownLabels'
    <3>1. CASE GrantLabel(<<u, t>>, l)
      <4>1. labels[id] \subseteq knownLabels /\ members' = members
        BY <2>2 DEF CatalogInv, Referential, directoryVars
      <4> QED
        BY <1>0, <2>1, <3>1, <4>1 DEF GrantLabel, RowTypes
    <3>2. CASE RevokeLabel(<<u, t>>, l)
      BY <1>0, <2>1, <3>2 DEF RevokeLabel, RowTypes
    <3> QED
      BY <1>9, <3>1, <3>2
  <2>6. Referential'
    BY <1>8, <2>2, <2>3, <2>4, <2>5, StepReferential
  <2> QED
    BY <2>3, <2>6 DEF CatalogInv
<1>10. ASSUME NEW u \in User, NEW t \in Tenant, NEW a \in Account, LinkAccount(a, <<u, t>>)
       PROVE  CatalogInv'
  <2>1. <<u, t>> \in Identity
    BY DEF Identity
  <2>2. RowTypes'
    BY <1>0, <1>8, <1>10, <2>1 DEF LinkAccount, RowTypes
  <2>3. UNCHANGED <<directoryVars, labels, knownLabels>>
    BY <1>10 DEF LinkAccount
  <2>4. \A x \in Account :
          \/ accounts'[x] = accounts[x]
          \/ users'[accounts'[x][1]] # "absent" /\ tenants'[accounts'[x][2]] # "absent"
    BY <1>0, <1>10, <2>3 DEF LinkAccount, RowTypes, directoryVars
  <2>5. Referential'
    BY <1>8, <2>2, <2>3, <2>4, StepReferential
  <2> QED
    BY <2>2, <2>5 DEF CatalogInv
<1>11. CASE SeedCatalog
  <2>1. DirectoryTypeOK' /\ RowsKept /\ NewMembersFounded /\ NewPasswordsFounded
    BY <1>0, <1>11, DirectorySteps DEF SeedCatalog, DirectoryNext
  <2>2. /\ tenantKey' \in [Tenant -> TenantName \cup {NoKey}]
        /\ labels' \in [Identity -> SUBSET Label]
        /\ knownLabels' \subseteq Label
    BY <1>0, <1>11 DEF SeedCatalog, RowTypes
  <2>3. RowTypes'
    BY <1>0, <1>11, <2>1, <2>2 DEF SeedCatalog, RowTypes
  <2>4. ASSUME NEW id \in Identity
        PROVE  \/ labels'[id] \subseteq labels[id]
               \/ members'[id] # "absent" /\ labels'[id] \subseteq knownLabels'
    <3>1. CASE id \in SeedMembers
      BY <1>11, <3>1 DEF SeedCatalog, Seed
    <3>2. CASE id \notin SeedMembers
      BY <1>11, <3>2 DEF SeedCatalog
    <3> QED
      BY <3>1, <3>2
  <2>5. knownLabels \subseteq knownLabels' /\ UNCHANGED accounts
    BY <1>11 DEF SeedCatalog
  <2>6. Referential'
    BY <2>1, <2>3, <2>4, <2>5, StepReferential
  <2> QED
    BY <2>3, <2>6 DEF CatalogInv
<1>12. CASE Refused \/ UNCHANGED catalogVars
  <2>1. UNCHANGED <<directoryVars, tenantKey, labels, knownLabels, accounts>>
    BY <1>12, RefusedIsNothing DEF catalogVars
  <2> QED
    BY <1>0, <2>1, StepDirectory DEF RowTypes
<1> QED
  BY <1>1, <1>2, <1>3, <1>4, <1>5, <1>6, <1>7, <1>9, <1>10, <1>11, <1>12
     DEF CatalogNext, Refused

\* Through any sequence of administrative calls, failed ones and re-seeds, no
\* membership, password, role, group or provider account is of a user or tenant
\* whose row is not there.
THEOREM ReferencesHold == CatalogSpec => []Referential
<1>1. CatalogInv => Referential
  BY DEF CatalogInv
<1>2. CatalogSpec => []CatalogInv
  BY InitCatalog, StepCatalog, PTL DEF CatalogSpec
<1> QED
  BY <1>1, <1>2, PTL

-----------------------------------------------------------------------------
(* The audit trail.                                                        *)

Event ==
  {"tenant.upsert", "tenant.disable", "tenant.enable"} \X Tenant
    \cup {"user.upsert", "user.disable", "user.enable", "user.password_set"} \X User
    \cup {"membership.upsert", "membership.disable"} \X Identity
    \cup {"label.grant", "label.revoke"} \X (Identity \X Label)
    \cup {"provider.link"} \X Account

Has(rows, event) == \E i \in DOMAIN rows : rows[i] = event

LEMMA Appended ==
  ASSUME NEW S, NEW trail \in Seq(S), NEW rows \in Seq(S)
  PROVE  /\ trail \o rows \in Seq(S)
         /\ Len(trail) \in Nat /\ Len(rows) \in Nat /\ Len(trail \o rows) = Len(trail) + Len(rows)
         /\ DOMAIN trail = 1 .. Len(trail) /\ DOMAIN rows = 1 .. Len(rows)
         /\ DOMAIN (trail \o rows) = 1 .. Len(trail) + Len(rows)
         /\ \A i \in DOMAIN trail : (trail \o rows)[i] = trail[i]
         /\ \A i \in DOMAIN rows : (trail \o rows)[Len(trail) + i] = rows[i]
         /\ \A i \in 1 .. Len(trail) + Len(rows) :
              i \in DOMAIN trail \/ \E j \in DOMAIN rows : i = Len(trail) + j
<1>1. \A i \in 1 .. Len(trail) + Len(rows) :
        i \in DOMAIN trail \/ \E j \in DOMAIN rows : i = Len(trail) + j
  <2> SUFFICES ASSUME NEW i \in 1 .. Len(trail) + Len(rows), i \notin DOMAIN trail
               PROVE  \E j \in DOMAIN rows : i = Len(trail) + j
    OBVIOUS
  <2>1. i - Len(trail) \in DOMAIN rows /\ i = Len(trail) + (i - Len(trail))
    OBVIOUS
  <2> QED
    BY <2>1
<1> QED
  BY <1>1

\* What a transaction that writes these rows may do to the status of one row.
Told(was, is, rows, insert, disable, enable) ==
  \/ /\ ~Has(rows, disable)
     /\ enable # insert => ~Has(rows, enable)
     /\ is = IF ~Has(rows, insert) THEN was ELSE IF enable = insert THEN "active" ELSE Upsert(was)
  \/ rows = <<disable>> /\ is = SetFlag(was, "disabled")
  \/ rows = <<enable>> /\ enable # insert /\ is = SetFlag(was, "active")

Inserted(trail, insert) == {i \in DOMAIN trail : trail[i] = insert}

DisabledLast(trail, insert, disable, enable) ==
  {j \in DOMAIN trail :
     /\ trail[j] = disable
     /\ \E i \in Inserted(trail, insert) : i < j
     /\ \A k \in j + 1 .. Len(trail) : trail[k] # enable}

LEMMA StatusAfterIs ==
  ASSUME NEW trail, NEW insert, NEW disable, NEW enable
  PROVE  StatusAfter(trail, insert, disable, enable) =
           IF Inserted(trail, insert) = {} THEN "absent"
           ELSE IF DisabledLast(trail, insert, disable, enable) # {} THEN "disabled" ELSE "active"
  BY DEF StatusAfter, Inserted, DisabledLast

\* Then the trail with the rows says what it is.
LEMMA ToldStatus ==
  ASSUME NEW S, NEW trail \in Seq(S), NEW rows \in Seq(S), NEW insert, NEW disable, NEW enable,
         disable # insert, disable # enable, NEW is,
         Told(StatusAfter(trail, insert, disable, enable), is, rows, insert, disable, enable)
  PROVE  is = StatusAfter(trail \o rows, insert, disable, enable)
<1> DEFINE all == trail \o rows
           n == Len(trail)
           was == StatusAfter(trail, insert, disable, enable)
           I == Inserted(trail, insert)
           J == Inserted(all, insert)
           D == DisabledLast(trail, insert, disable, enable)
           E == DisabledLast(all, insert, disable, enable)
<1>1. /\ n \in Nat /\ Len(rows) \in Nat /\ Len(all) = n + Len(rows)
      /\ DOMAIN trail = 1 .. n /\ DOMAIN rows = 1 .. Len(rows) /\ DOMAIN all = 1 .. n + Len(rows)
      /\ \A i \in 1 .. n : all[i] = trail[i]
      /\ \A i \in 1 .. Len(rows) : all[n + i] = rows[i]
      /\ \A i \in 1 .. n + Len(rows) : i \in 1 .. n \/ \E j \in 1 .. Len(rows) : i = n + j
  <2>1. /\ n \in Nat /\ Len(rows) \in Nat /\ Len(all) = n + Len(rows)
        /\ DOMAIN trail = 1 .. n /\ DOMAIN rows = 1 .. Len(rows) /\ DOMAIN all = 1 .. n + Len(rows)
    BY Appended
  <2>2. \A i \in DOMAIN trail : all[i] = trail[i]
    BY Appended
  <2>3. \A i \in DOMAIN rows : all[n + i] = rows[i]
    BY Appended
  <2>4. \A i \in 1 .. n + Len(rows) : i \in DOMAIN trail \/ \E j \in DOMAIN rows : i = n + j
    BY Appended
  <2> HIDE DEF all, n
  <2> QED
    BY <2>1, <2>2, <2>3, <2>4
<1>2. /\ was = IF I = {} THEN "absent" ELSE IF D # {} THEN "disabled" ELSE "active"
      /\ StatusAfter(all, insert, disable, enable) =
           IF J = {} THEN "absent" ELSE IF E # {} THEN "disabled" ELSE "active"
  BY StatusAfterIs
<1>3. \A i : i \in I <=> i \in 1 .. n /\ trail[i] = insert
  BY <1>1 DEF Inserted
<1>4. \A i : i \in J <=> i \in 1 .. n + Len(rows) /\ all[i] = insert
  BY <1>1 DEF Inserted
<1>5. \A j : j \in D <=> /\ j \in 1 .. n /\ trail[j] = disable
                        /\ \E i \in I : i < j
                        /\ \A k \in j + 1 .. n : trail[k] # enable
  BY <1>1 DEF DisabledLast
<1>6. \A j : j \in E <=> /\ j \in 1 .. n + Len(rows) /\ all[j] = disable
                        /\ \E i \in J : i < j
                        /\ \A k \in j + 1 .. n + Len(rows) : all[k] # enable
  BY <1>1 DEF DisabledLast
<1>7. Told(was, is, rows, insert, disable, enable)
  OBVIOUS
<1> SUFFICES is = StatusAfter(all, insert, disable, enable)
  OBVIOUS
<1> HIDE DEF all, n, was, I, J, D, E
<1>8. \A i \in I : i \in J
  BY <1>1, <1>3, <1>4
<1>9. \A j \in J : j \in I \/ Has(rows, insert)
  BY <1>1, <1>3, <1>4 DEF Has
<1>10. Has(rows, insert) => J # {}
  <2>1. SUFFICES ASSUME NEW i \in 1 .. Len(rows), rows[i] = insert PROVE n + i \in J
    BY <1>1 DEF Has
  <2> QED
    BY <1>1, <1>4, <2>1
\* Rows that do not disable leave a disabled row so, if they do not enable it.
<1>11. ASSUME ~Has(rows, disable), ~Has(rows, enable) PROVE \A j : j \in E <=> j \in D
  <2>1. ASSUME NEW j \in E PROVE j \in D
    <3>1. j \in 1 .. n /\ trail[j] = disable
      BY <1>1, <1>6, <1>11, <2>1 DEF Has
    <3>2. PICK i \in J : i < j
      BY <1>6, <2>1
    <3>3. i \in I
      BY <1>1, <1>3, <1>4, <3>1, <3>2
    <3>4. \A k \in j + 1 .. n : trail[k] # enable
      BY <1>1, <1>6, <2>1, <3>1
    <3> QED
      BY <1>5, <3>1, <3>2, <3>3, <3>4
  <2>2. ASSUME NEW j \in D PROVE j \in E
    <3>1. j \in 1 .. n /\ j \in 1 .. n + Len(rows) /\ all[j] = disable
      BY <1>1, <1>5, <2>2
    <3>2. \E i \in J : i < j
      BY <1>5, <1>8, <2>2
    <3>3. ASSUME NEW k \in j + 1 .. n + Len(rows) PROVE all[k] # enable
      <4>1. k \in 1 .. n + Len(rows)
        BY <1>1, <3>1
      <4>2. CASE k \in 1 .. n
        <5>1. k \in j + 1 .. n
          BY <1>1, <3>1, <4>2
        <5> QED
          BY <1>1, <1>5, <2>2, <4>2, <5>1
      <4>3. ASSUME NEW m \in 1 .. Len(rows), k = n + m PROVE all[k] # enable
        BY <1>1, <1>11, <4>3 DEF Has
      <4> QED
        BY <1>1, <4>1, <4>2, <4>3
    <3> QED
      BY <1>6, <3>1, <3>2, <3>3
  <2> QED
    BY <2>1, <2>2
<1>12. I = {} => D = {}
  BY <1>5
<1>13. CASE /\ ~Has(rows, disable)
            /\ enable # insert => ~Has(rows, enable)
            /\ is = IF ~Has(rows, insert) THEN was ELSE IF enable = insert THEN "active" ELSE Upsert(was)
  <2>1. CASE ~Has(rows, insert)
    <3>1. (J = {}) = (I = {}) /\ (E # {}) = (D # {})
      BY <1>8, <1>9, <1>11, <1>13, <2>1
    <3> QED
      BY <1>2, <1>13, <2>1, <3>1
  <2>2. CASE Has(rows, insert) /\ enable # insert
    <3>1. J # {} /\ (E # {}) = (D # {})
      BY <1>10, <1>11, <1>13, <2>2
    <3> QED
      BY <1>2, <1>12, <1>13, <2>2, <3>1 DEF Upsert
  <2>3. CASE Has(rows, insert) /\ enable = insert
    <3>1. ASSUME NEW j \in E PROVE FALSE
      <4>1. j \in 1 .. n
        BY <1>1, <1>6, <1>13, <3>1 DEF Has
      <4>2. PICK m \in 1 .. Len(rows) : rows[m] = enable
        BY <1>1, <2>3 DEF Has
      <4>3. n + m \in j + 1 .. n + Len(rows)
        BY <1>1, <4>1
      <4> QED
        BY <1>1, <1>6, <3>1, <4>2, <4>3
    <3> QED
      BY <1>2, <1>10, <1>13, <2>3, <3>1
  <2> QED
    BY <2>1, <2>2, <2>3
<1>14. CASE rows = <<disable>> /\ is = SetFlag(was, "disabled")
  <2>1. Len(rows) = 1 /\ rows[1] = disable /\ all[n + 1] = disable
    BY <1>1, <1>14
  <2>2. \A i : i \in J <=> i \in I
    BY <1>1, <1>3, <1>4, <2>1
  <2>3. ASSUME NEW i \in I PROVE n + 1 \in E
    <3>1. i < n + 1 /\ i \in J
      BY <1>1, <1>3, <2>2
    <3> QED
      BY <1>1, <1>6, <2>1, <3>1
  <2> QED
    BY <1>2, <1>14, <2>2, <2>3 DEF SetFlag
<1>15. CASE rows = <<enable>> /\ enable # insert /\ is = SetFlag(was, "active")
  <2>1. Len(rows) = 1 /\ rows[1] = enable /\ all[n + 1] = enable
    BY <1>1, <1>15
  <2>2. \A i : i \in J <=> i \in I
    BY <1>1, <1>3, <1>4, <1>15, <2>1
  <2>3. ASSUME NEW j \in E PROVE FALSE
    <3>1. j \in 1 .. n
      BY <1>1, <1>6, <2>1, <2>3
    <3>2. n + 1 \in j + 1 .. n + Len(rows)
      BY <1>1, <2>1, <3>1
    <3> QED
      BY <1>6, <2>1, <2>3, <3>2
  <2> QED
    BY <1>2, <1>15, <2>2, <2>3 DEF SetFlag
<1> QED
  BY <1>7, <1>13, <1>14, <1>15 DEF Told

-----------------------------------------------------------------------------
(* What the transaction of an operation writes, and what it does.          *)

TenantKinds == {"tenant.upsert", "tenant.disable", "tenant.enable"}

UserKinds == {"user.upsert", "user.disable", "user.enable"}

MemberKinds == {"membership.upsert", "membership.disable"}

TenantsTold(rows) ==
  \A t \in Tenant : Told(tenants[t], tenants'[t], rows, <<"tenant.upsert", t>>,
                         <<"tenant.disable", t>>, <<"tenant.enable", t>>)

UsersTold(rows) ==
  \A u \in User : Told(users[u], users'[u], rows, <<"user.upsert", u>>,
                       <<"user.disable", u>>, <<"user.enable", u>>)

MembersTold(rows) ==
  \A id \in Identity : Told(members[id], members'[id], rows, <<"membership.upsert", id>>,
                            <<"membership.disable", id>>, <<"membership.upsert", id>>)

LabelsTold(rows) ==
  \A id \in Identity : \A l \in labels'[id] :
    /\ ~Has(rows, <<"label.revoke", <<id, l>> >>)
    /\ \/ l \in labels[id]
       \/ Has(rows, <<"label.grant", <<id, l>> >>)
       \/ Has(rows, <<"membership.upsert", id>>)

AuditInv ==
  /\ audit \in Seq(Event)
  /\ Len(audit) <= MaxAudit
  /\ AuditReplays
  /\ LabelsExplained

\* A transaction whose rows tell what it does keeps the trail in agreement.
LEMMA Transaction ==
  ASSUME AuditInv, NEW rows \in Seq(Event), Record(rows),
         TenantsTold(rows), UsersTold(rows), MembersTold(rows), LabelsTold(rows)
  PROVE  AuditInv'
<1>1. audit \in Seq(Event) /\ audit' = audit \o rows /\ Len(audit) + Len(rows) <= MaxAudit
  BY DEF AuditInv, Record
<1>2. audit' \in Seq(Event) /\ Len(audit') <= MaxAudit
  BY <1>1, Appended
<1>3. AuditReplays'
  <2>1. ASSUME NEW t \in Tenant
        PROVE  tenants'[t] = StatusAfter(audit', <<"tenant.upsert", t>>, <<"tenant.disable", t>>,
                                         <<"tenant.enable", t>>)
    <3>1. tenants[t] = StatusAfter(audit, <<"tenant.upsert", t>>, <<"tenant.disable", t>>,
                                   <<"tenant.enable", t>>)
      BY DEF AuditInv, AuditReplays
    <3>2. Told(StatusAfter(audit, <<"tenant.upsert", t>>, <<"tenant.disable", t>>,
                           <<"tenant.enable", t>>), tenants'[t], rows,
               <<"tenant.upsert", t>>, <<"tenant.disable", t>>, <<"tenant.enable", t>>)
      BY <3>1 DEF TenantsTold
    <3> QED
      BY <1>1, <3>2, ToldStatus
  <2>2. ASSUME NEW u \in User
        PROVE  users'[u] = StatusAfter(audit', <<"user.upsert", u>>, <<"user.disable", u>>,
                                       <<"user.enable", u>>)
    <3>1. users[u] = StatusAfter(audit, <<"user.upsert", u>>, <<"user.disable", u>>,
                                 <<"user.enable", u>>)
      BY DEF AuditInv, AuditReplays
    <3> QED
      BY <1>1, <3>1, ToldStatus DEF UsersTold
  <2>3. ASSUME NEW id \in Identity
        PROVE  members'[id] = StatusAfter(audit', <<"membership.upsert", id>>,
                                          <<"membership.disable", id>>, <<"membership.upsert", id>>)
    <3>1. members[id] = StatusAfter(audit, <<"membership.upsert", id>>,
                                    <<"membership.disable", id>>, <<"membership.upsert", id>>)
      BY DEF AuditInv, AuditReplays
    <3> QED
      BY <1>1, <3>1, ToldStatus DEF MembersTold
  <2> QED
    BY <2>1, <2>2, <2>3 DEF AuditReplays
<1>4. LabelsExplained'
  <2> SUFFICES ASSUME NEW id \in Identity, NEW l \in labels'[id]
               PROVE  \E i \in DOMAIN audit' :
                        /\ audit'[i] \in {<<"label.grant", <<id, l>> >>, <<"membership.upsert", id>>}
                        /\ \A j \in i + 1 .. Len(audit') : audit'[j] # <<"label.revoke", <<id, l>> >>
    BY DEF LabelsExplained
  <2> DEFINE n == Len(audit)
             revoke == <<"label.revoke", <<id, l>> >>
             given == {<<"label.grant", <<id, l>> >>, <<"membership.upsert", id>>}
  <2>1. /\ n \in Nat /\ Len(rows) \in Nat /\ Len(audit') = n + Len(rows)
        /\ DOMAIN audit = 1 .. n /\ DOMAIN rows = 1 .. Len(rows) /\ DOMAIN audit' = 1 .. n + Len(rows)
    BY <1>1, Appended
  <2>2. \A i \in DOMAIN audit : audit'[i] = audit[i]
    BY <1>1, Appended
  <2>3. \A i \in DOMAIN rows : audit'[n + i] = rows[i]
    BY <1>1, Appended
  <2>4. \A i \in 1 .. n + Len(rows) : i \in DOMAIN audit \/ \E j \in DOMAIN rows : i = n + j
    BY <1>1, Appended
  <2>5. \A j \in DOMAIN rows : rows[j] # revoke
    BY DEF LabelsTold, Has
  <2> HIDE DEF n, revoke
  <2>6. CASE l \in labels[id]
    <3>1. PICK i \in DOMAIN audit : audit[i] \in given /\ \A j \in i + 1 .. n : audit[j] # revoke
      BY <2>6 DEF AuditInv, LabelsExplained, n, revoke
    <3>2. ASSUME NEW j \in i + 1 .. n + Len(rows) PROVE audit'[j] # revoke
      <4>1. j \in 1 .. n + Len(rows)
        BY <2>1
      <4>2. CASE j \in DOMAIN audit
        BY <2>1, <2>2, <3>1, <4>2
      <4>3. ASSUME NEW m \in DOMAIN rows, j = n + m PROVE audit'[j] # revoke
        BY <2>3, <2>5, <4>3
      <4> QED
        BY <2>4, <4>1, <4>2, <4>3
    <3>3. i \in DOMAIN audit' /\ audit'[i] \in given
      BY <2>1, <2>2, <3>1
    <3> QED
      BY <2>1, <3>2, <3>3 DEF revoke
  <2>7. CASE Has(rows, <<"label.grant", <<id, l>> >>) \/ Has(rows, <<"membership.upsert", id>>)
    <3>1. PICK m \in DOMAIN rows : rows[m] \in given
      BY <2>7 DEF Has
    <3>2. n + m \in DOMAIN audit' /\ audit'[n + m] \in given
      BY <2>1, <2>3, <3>1
    <3>3. ASSUME NEW j \in n + m + 1 .. n + Len(rows) PROVE audit'[j] # revoke
      <4>1. j - n \in DOMAIN rows /\ j = n + (j - n)
        BY <2>1
      <4> QED
        BY <2>3, <2>5, <4>1
    <3> QED
      BY <2>1, <3>2, <3>3 DEF revoke
  <2> QED
    BY <2>6, <2>7 DEF LabelsTold
<1> QED
  BY <1>2, <1>3, <1>4 DEF AuditInv

OfNone(rows, kinds) == \A i \in DOMAIN rows : rows[i][1] \notin kinds

\* Rows of other kinds, and nothing done.
LEMMA Quiet ==
  ASSUME NEW rows
  PROVE  /\ UNCHANGED tenants /\ OfNone(rows, TenantKinds) => TenantsTold(rows)
         /\ UNCHANGED users /\ OfNone(rows, UserKinds) => UsersTold(rows)
         /\ UNCHANGED members /\ OfNone(rows, MemberKinds) => MembersTold(rows)
         /\ UNCHANGED labels /\ OfNone(rows, {"label.revoke"}) => LabelsTold(rows)
<1>1. ASSUME NEW kind, NEW kinds, kind \in kinds, OfNone(rows, kinds), NEW x
      PROVE  ~Has(rows, <<kind, x>>)
  <2>1. <<kind, x>>[1] = kind
    OBVIOUS
  <2> QED
    BY <1>1, <2>1 DEF OfNone, Has
<1>2. ASSUME UNCHANGED tenants, OfNone(rows, TenantKinds) PROVE TenantsTold(rows)
  BY <1>1, <1>2 DEF TenantsTold, TenantKinds, Told
<1>3. ASSUME UNCHANGED users, OfNone(rows, UserKinds) PROVE UsersTold(rows)
  BY <1>1, <1>3 DEF UsersTold, UserKinds, Told
<1>4. ASSUME UNCHANGED members, OfNone(rows, MemberKinds) PROVE MembersTold(rows)
  BY <1>1, <1>4 DEF MembersTold, MemberKinds, Told
<1>5. ASSUME UNCHANGED labels, OfNone(rows, {"label.revoke"}) PROVE LabelsTold(rows)
  BY <1>1, <1>5 DEF LabelsTold
<1> QED
  BY <1>2, <1>3, <1>4, <1>5

LEMMA OneRow ==
  ASSUME NEW e \in Event
  PROVE  /\ <<e>> \in Seq(Event)
         /\ \A x : Has(<<e>>, x) <=> x = e
         /\ \A kinds : e[1] \notin kinds => OfNone(<<e>>, kinds)
  BY DEF Has, OfNone

-----------------------------------------------------------------------------
(* The rows of the seed.                                                   *)

LEMMA HasAppended ==
  ASSUME NEW S, NEW one \in Seq(S), NEW two \in Seq(S), NEW e
  PROVE  Has(one \o two, e) <=> Has(one, e) \/ Has(two, e)
<1>1. /\ DOMAIN one = 1 .. Len(one) /\ DOMAIN two = 1 .. Len(two)
      /\ DOMAIN (one \o two) = 1 .. Len(one) + Len(two)
  BY Appended
<1>2. \A i \in DOMAIN one : (one \o two)[i] = one[i]
  BY Appended
<1>3. \A i \in DOMAIN two : (one \o two)[Len(one) + i] = two[i]
  BY Appended
<1>4. \A i \in 1 .. Len(one) + Len(two) :
        i \in DOMAIN one \/ \E j \in DOMAIN two : i = Len(one) + j
  BY Appended
<1>5. /\ \A i \in DOMAIN one : i \in DOMAIN (one \o two)
      /\ \A i \in DOMAIN two : Len(one) + i \in DOMAIN (one \o two)
  <2>1. Len(one) \in Nat /\ Len(two) \in Nat
    OBVIOUS
  <2> QED
    BY <1>1, <2>1
<1>6. ASSUME Has(one, e) PROVE Has(one \o two, e)
  BY <1>2, <1>5, <1>6 DEF Has
<1>7. ASSUME Has(two, e) PROVE Has(one \o two, e)
  BY <1>3, <1>5, <1>7 DEF Has
<1>8. ASSUME Has(one \o two, e) PROVE Has(one, e) \/ Has(two, e)
  <2>1. PICK i \in 1 .. Len(one) + Len(two) : (one \o two)[i] = e
    BY <1>1, <1>8 DEF Has
  <2>2. CASE i \in DOMAIN one
    BY <1>2, <2>1, <2>2 DEF Has
  <2>3. ASSUME NEW j \in DOMAIN two, i = Len(one) + j PROVE Has(two, e)
    BY <1>3, <2>1, <2>3 DEF Has
  <2> QED
    BY <1>4, <2>2, <2>3
<1> QED
  BY <1>6, <1>7, <1>8

LEMMA SetToSeqIs ==
  ASSUME NEW S, IsFiniteSet(S)
  PROVE  /\ SetToSeq(S) \in Seq(S)
         /\ Len(SetToSeq(S)) \in Nat /\ DOMAIN SetToSeq(S) = 1 .. Len(SetToSeq(S))
         /\ \A x \in S : \E i \in DOMAIN SetToSeq(S) : SetToSeq(S)[i] = x
<1> DEFINE n == Cardinality(S)
           f == SetToSeq(S)
<1>1. n \in Nat /\ ExistsBijection(1 .. n, S)
  BY FS_CardinalityType
<1>2. PICK g : g \in Bijection(1 .. n, S)
  BY <1>1 DEF ExistsBijection
<1>3. g \in [1 .. n -> S] /\ IsInjective(g)
  BY <1>2 DEF Bijection, Injection, IsInjective
<1>4. f \in [1 .. n -> S] /\ IsInjective(f)
  BY <1>3 DEF SetToSeq
<1> HIDE DEF f
<1>5. f \in Injection(1 .. n, S)
  BY <1>4 DEF Injection, IsInjective
<1>6. f \in Surjection(1 .. n, S)
  <2>1. Cardinality(1 .. n) = n
    <3>1. n \in Int /\ 1 \in Int
      BY <1>1
    <3> HIDE DEF n
    <3>2. Cardinality(1 .. n) = IF 1 > n THEN 0 ELSE n - 1 + 1
      BY <3>1, FS_Interval
    <3> QED
      BY <1>1, <3>2
  <2>2. IsFiniteSet(S) /\ Cardinality(1 .. n) = Cardinality(S)
    BY <2>1
  <2> QED
    BY <1>5, <2>2, FS_Injection
<1>7. f \in Seq(S) /\ Len(f) = n /\ DOMAIN f = 1 .. n
  BY <1>1, <1>4
<1>8. \A x \in S : \E i \in 1 .. n : f[i] = x
  BY <1>6 DEF Surjection
<1> QED
  BY <1>1, <1>7, <1>8 DEF f

\* Each tenant and each user of the file is told once per row, in some order.
LEMMA SeedHas ==
  /\ SeedRows \in Seq(Event)
  /\ \A e : Has(SeedRows, e) <=>
       \/ \E t \in SeedTenants : e = <<"tenant.upsert", t>>
       \/ \E id \in SeedMembers :
            /\ SeedPassword[id[1]] # NoPassword
            /\ e = <<"user.password_set", id[1]>>
       \/ \E id \in SeedMembers : e = <<"user.upsert", id[1]>>
       \/ \E id \in SeedMembers : e = <<"membership.upsert", id>>
<1> DEFINE W == {id \in SeedMembers : SeedPassword[id[1]] # NoPassword}
           T == SetToSeq(SeedTenants)
           M == SetToSeq(SeedMembers)
           P == SetToSeq(W)
           tenantRows == [i \in DOMAIN T |-> <<"tenant.upsert", T[i]>>]
           passwordRows == [i \in DOMAIN P |-> <<"user.password_set", P[i][1]>>]
           userRows == [i \in DOMAIN M |-> <<"user.upsert", M[i][1]>>]
           memberRows == [i \in DOMAIN M |-> <<"membership.upsert", M[i]>>]
<1>1. /\ T \in Seq(SeedTenants) /\ Len(T) \in Nat /\ DOMAIN T = 1 .. Len(T)
      /\ \A x \in SeedTenants : \E i \in DOMAIN T : T[i] = x
  BY SetToSeqIs
<1>2. /\ M \in Seq(SeedMembers) /\ Len(M) \in Nat /\ DOMAIN M = 1 .. Len(M)
      /\ \A x \in SeedMembers : \E i \in DOMAIN M : M[i] = x
  BY SetToSeqIs
<1>3. /\ P \in Seq(W) /\ Len(P) \in Nat /\ DOMAIN P = 1 .. Len(P)
      /\ \A x \in W : \E i \in DOMAIN P : P[i] = x
  <2>1. W \in SUBSET SeedMembers /\ IsFiniteSet(SeedMembers)
    OBVIOUS
  <2>2. IsFiniteSet(W)
    BY <2>1, FS_Subset
  <2> HIDE DEF W
  <2> QED
    BY <2>2, SetToSeqIs
<1>4. SeedRows = ((tenantRows \o passwordRows) \o userRows) \o memberRows
  BY DEF SeedRows
<1>5. \A id \in SeedMembers : id \in Identity /\ id[1] \in User
  BY DEF Identity
<1> HIDE DEF T, M, P
<1>6. /\ tenantRows \in Seq(Event)
      /\ \A e : Has(tenantRows, e) <=> \E t \in SeedTenants : e = <<"tenant.upsert", t>>
  <2>1. \A i \in DOMAIN T : T[i] \in SeedTenants
    BY <1>1
  <2>2. \A t \in SeedTenants : <<"tenant.upsert", t>> \in Event
    BY DEF Event
  <2>3. tenantRows \in [1 .. Len(T) -> Event]
    BY <1>1, <2>1, <2>2
  <2> QED
    BY <1>1, <2>1, <2>3 DEF Has
<1>7. /\ passwordRows \in Seq(Event)
      /\ \A e : Has(passwordRows, e) <=>
           \E id \in SeedMembers :
             SeedPassword[id[1]] # NoPassword /\ e = <<"user.password_set", id[1]>>
  <2>1. \A i \in DOMAIN P : P[i] \in W
    BY <1>3
  <2>2. \A id \in W : <<"user.password_set", id[1]>> \in Event
    BY <1>5 DEF Event
  <2>3. passwordRows \in [1 .. Len(P) -> Event]
    BY <1>3, <2>1, <2>2
  <2> QED
    BY <1>3, <2>1, <2>3 DEF Has
<1>8. /\ userRows \in Seq(Event)
      /\ \A e : Has(userRows, e) <=> \E id \in SeedMembers : e = <<"user.upsert", id[1]>>
  <2>1. \A i \in DOMAIN M : M[i] \in SeedMembers
    BY <1>2
  <2>2. \A id \in SeedMembers : <<"user.upsert", id[1]>> \in Event
    BY <1>5 DEF Event
  <2>3. userRows \in [1 .. Len(M) -> Event]
    BY <1>2, <2>1, <2>2
  <2> QED
    BY <1>2, <2>1, <2>3 DEF Has
<1>9. /\ memberRows \in Seq(Event)
      /\ \A e : Has(memberRows, e) <=> \E id \in SeedMembers : e = <<"membership.upsert", id>>
  <2>1. \A i \in DOMAIN M : M[i] \in SeedMembers
    BY <1>2
  <2>2. \A id \in SeedMembers : <<"membership.upsert", id>> \in Event
    BY <1>5 DEF Event
  <2>3. memberRows \in [1 .. Len(M) -> Event]
    BY <1>2, <2>1, <2>2
  <2> QED
    BY <1>2, <2>1, <2>3 DEF Has
<1> HIDE DEF tenantRows, passwordRows, userRows, memberRows
<1>10. /\ tenantRows \o passwordRows \in Seq(Event)
       /\ (tenantRows \o passwordRows) \o userRows \in Seq(Event)
       /\ ((tenantRows \o passwordRows) \o userRows) \o memberRows \in Seq(Event)
  BY <1>6, <1>7, <1>8, <1>9
<1>11. \A e : Has(SeedRows, e) <=> \/ Has(tenantRows, e)
                                   \/ Has(passwordRows, e)
                                   \/ Has(userRows, e)
                                   \/ Has(memberRows, e)
  <2> TAKE e
  <2>1. Has(tenantRows \o passwordRows, e) <=> Has(tenantRows, e) \/ Has(passwordRows, e)
    BY <1>6, <1>7, HasAppended
  <2>2. Has((tenantRows \o passwordRows) \o userRows, e) <=>
          Has(tenantRows \o passwordRows, e) \/ Has(userRows, e)
    BY <1>8, <1>10, HasAppended
  <2>3. Has(((tenantRows \o passwordRows) \o userRows) \o memberRows, e) <=>
          Has((tenantRows \o passwordRows) \o userRows, e) \/ Has(memberRows, e)
    BY <1>9, <1>10, HasAppended
  <2> QED
    BY <1>4, <2>1, <2>2, <2>3
<1> QED
  BY <1>4, <1>6, <1>7, <1>8, <1>9, <1>10, <1>11

\* What the seed tells of a row.
LEMMA SeedTells ==
  /\ \A x : Has(SeedRows, <<"tenant.upsert", x>>) <=> x \in SeedTenants
  /\ \A x : Has(SeedRows, <<"user.upsert", x>>) <=> x \in SeedUsers
  /\ \A x : Has(SeedRows, <<"membership.upsert", x>>) <=> x \in SeedMembers
  /\ \A kind, x :
       kind \notin {"tenant.upsert", "user.password_set", "user.upsert", "membership.upsert"} =>
         ~Has(SeedRows, <<kind, x>>)
<1>1. \A kind, x :
        Has(SeedRows, <<kind, x>>) <=>
          \/ kind = "tenant.upsert" /\ x \in SeedTenants
          \/ /\ kind = "user.password_set"
             /\ \E id \in SeedMembers : SeedPassword[id[1]] # NoPassword /\ x = id[1]
          \/ kind = "user.upsert" /\ \E id \in SeedMembers : x = id[1]
          \/ kind = "membership.upsert" /\ x \in SeedMembers
  <2> TAKE kind, x
  <2>1. \A k, y : <<kind, x>> = <<k, y>> <=> kind = k /\ x = y
    OBVIOUS
  <2> DEFINE e == <<kind, x>>
  <2>2. Has(SeedRows, e) <=>
          \/ \E t \in SeedTenants : e = <<"tenant.upsert", t>>
          \/ \E id \in SeedMembers :
               /\ SeedPassword[id[1]] # NoPassword
               /\ e = <<"user.password_set", id[1]>>
          \/ \E id \in SeedMembers : e = <<"user.upsert", id[1]>>
          \/ \E id \in SeedMembers : e = <<"membership.upsert", id>>
    <3> HIDE DEF e
    <3> QED
      BY SeedHas
  <2>3. \A k, y : e = <<k, y>> <=> kind = k /\ x = y
    BY <2>1
  <2> HIDE DEF e
  <2>4. Has(SeedRows, e) <=>
          \/ kind = "tenant.upsert" /\ x \in SeedTenants
          \/ /\ kind = "user.password_set"
             /\ \E id \in SeedMembers : SeedPassword[id[1]] # NoPassword /\ x = id[1]
          \/ kind = "user.upsert" /\ \E id \in SeedMembers : x = id[1]
          \/ kind = "membership.upsert" /\ x \in SeedMembers
    BY <2>2, <2>3
  <2> QED
    BY <2>4 DEF e
<1>2. \A x : x \in SeedUsers <=> \E id \in SeedMembers : x = id[1]
  BY DEF SeedUsers
<1> QED
  BY <1>1, <1>2

LEMMA InitAudit == CatalogInit => AuditInv
<1> SUFFICES ASSUME CatalogInit PROVE AuditInv
  OBVIOUS
<1>1. audit = <<>> /\ audit \in Seq(Event) /\ Len(audit) = 0 /\ DOMAIN audit = {}
  BY DEF CatalogInit
<1>2. \A insert, disable, enable : StatusAfter(audit, insert, disable, enable) = "absent"
  BY <1>1 DEF StatusAfter
<1>3. AuditReplays
  BY <1>2 DEF AuditReplays, CatalogInit, DirectoryInit
<1>4. LabelsExplained
  BY DEF LabelsExplained, CatalogInit
<1> QED
  BY <1>1, <1>3, <1>4 DEF AuditInv

LEMMA StepAudit ==
  ASSUME RowTypes, AuditInv, [CatalogNext]_catalogVars
  PROVE  AuditInv'
<1> USE DEF RowTypes, DirectoryTypeOK, TenantKinds, UserKinds, MemberKinds
<1>1. ASSUME NEW t \in Tenant, NEW k \in TenantName, UpsertTenant(t, k)
      PROVE  AuditInv'
  <2> DEFINE e == <<"tenant.upsert", t>>
  <2>1. e \in Event /\ e[1] = "tenant.upsert"
    BY DEF Event
  <2>2. /\ <<e>> \in Seq(Event)
        /\ \A x : Has(<<e>>, x) <=> x = e
        /\ OfNone(<<e>>, UserKinds) /\ OfNone(<<e>>, MemberKinds) /\ OfNone(<<e>>, {"label.revoke"})
    BY <2>1, OneRow
  <2>3. TenantsTold(<<e>>)
    BY <1>1, <2>2 DEF TenantsTold, Told, UpsertTenant, CreateTenant
  <2>4. UsersTold(<<e>>) /\ MembersTold(<<e>>) /\ LabelsTold(<<e>>)
    BY <1>1, <2>2, Quiet DEF UpsertTenant, CreateTenant
  <2>5. Record(<<e>>)
    BY <1>1 DEF UpsertTenant
  <2> QED
    BY <2>2, <2>3, <2>4, <2>5, Transaction
<1>2. ASSUME NEW t \in Tenant, NEW disabled \in BOOLEAN, SetTenantDisabled(t, disabled)
      PROVE  AuditInv'
  <2> DEFINE e == IF disabled THEN <<"tenant.disable", t>> ELSE <<"tenant.enable", t>>
  <2>1. e \in Event /\ e[1] \in {"tenant.disable", "tenant.enable"}
    BY DEF Event
  <2>2. /\ <<e>> \in Seq(Event)
        /\ \A x : Has(<<e>>, x) <=> x = e
        /\ OfNone(<<e>>, UserKinds) /\ OfNone(<<e>>, MemberKinds) /\ OfNone(<<e>>, {"label.revoke"})
    BY <2>1, OneRow
  <2>3. Record(<<e>>)
    BY <1>2 DEF SetTenantDisabled
  <2>4. TenantsTold(<<e>>)
    <3>1. CASE disabled
      BY <1>2, <2>2, <3>1 DEF TenantsTold, Told, SetTenantDisabled, DisableTenant
    <3>2. CASE ~disabled
      BY <1>2, <2>2, <3>2 DEF TenantsTold, Told, SetTenantDisabled, EnableTenant
    <3> QED
      BY <3>1, <3>2
  <2>5. UNCHANGED <<users, members, labels>>
    BY <1>2 DEF SetTenantDisabled, DisableTenant, EnableTenant
  <2>6. UsersTold(<<e>>) /\ MembersTold(<<e>>) /\ LabelsTold(<<e>>)
    BY <2>2, <2>5, Quiet
  <2> QED
    BY <2>2, <2>3, <2>4, <2>6, Transaction
<1>3. ASSUME NEW u \in User, NEW p \in Password \cup {NoPassword}, UpsertUser(u, p)
      PROVE  AuditInv'
  <2> DEFINE e == <<"user.upsert", u>>
             set == <<"user.password_set", u>>
             rows == PasswordRows(u, p) \o <<e>>
  <2>1. e \in Event /\ set \in Event
    BY DEF Event
  <2>2. /\ PasswordRows(u, p) \in Seq(Event)
        /\ \A x : Has(PasswordRows(u, p), x) => x = set
    BY <2>1 DEF PasswordRows, Has
  <2>3. <<e>> \in Seq(Event) /\ \A x : Has(<<e>>, x) <=> x = e
    BY <2>1, OneRow
  <2>4. rows \in Seq(Event)
    BY <2>2, <2>3
  <2>5. \A x : Has(rows, x) <=> Has(PasswordRows(u, p), x) \/ x = e
    BY <2>2, <2>3, HasAppended
  <2>6. Record(rows) /\ users' = [users EXCEPT ![u] = Upsert(@)]
        /\ UNCHANGED <<tenants, members, labels>>
    BY <1>3 DEF UpsertUser, CreateUser
  <2> HIDE DEF rows
  <2>7. UsersTold(rows)
    BY <2>2, <2>5, <2>6 DEF UsersTold, Told
  <2>8. ASSUME NEW kinds, "user.upsert" \notin kinds, "user.password_set" \notin kinds
        PROVE  OfNone(rows, kinds)
    <3>1. e[1] = "user.upsert" /\ set[1] = "user.password_set"
      OBVIOUS
    <3> QED
      BY <2>2, <2>5, <2>8, <3>1 DEF OfNone, Has
  <2>9. OfNone(rows, TenantKinds) /\ OfNone(rows, MemberKinds) /\ OfNone(rows, {"label.revoke"})
    BY <2>8
  <2>10. TenantsTold(rows) /\ MembersTold(rows) /\ LabelsTold(rows)
    BY <2>6, <2>9, Quiet
  <2> QED
    BY <2>4, <2>6, <2>7, <2>10, Transaction
<1>4. ASSUME NEW u \in User, NEW disabled \in BOOLEAN, SetUserDisabled(u, disabled)
      PROVE  AuditInv'
  <2> DEFINE e == IF disabled THEN <<"user.disable", u>> ELSE <<"user.enable", u>>
  <2>1. e \in Event /\ e[1] \in {"user.disable", "user.enable"}
    BY DEF Event
  <2>2. /\ <<e>> \in Seq(Event)
        /\ \A x : Has(<<e>>, x) <=> x = e
        /\ OfNone(<<e>>, TenantKinds) /\ OfNone(<<e>>, MemberKinds) /\ OfNone(<<e>>, {"label.revoke"})
    BY <2>1, OneRow
  <2>3. Record(<<e>>)
    BY <1>4 DEF SetUserDisabled
  <2>4. UsersTold(<<e>>)
    <3>1. CASE disabled
      BY <1>4, <2>2, <3>1 DEF UsersTold, Told, SetUserDisabled, DisableUser
    <3>2. CASE ~disabled
      BY <1>4, <2>2, <3>2 DEF UsersTold, Told, SetUserDisabled, EnableUser
    <3> QED
      BY <3>1, <3>2
  <2>5. UNCHANGED <<tenants, members, labels>>
    BY <1>4 DEF SetUserDisabled, DisableUser, EnableUser
  <2>6. TenantsTold(<<e>>) /\ MembersTold(<<e>>) /\ LabelsTold(<<e>>)
    BY <2>2, <2>5, Quiet
  <2> QED
    BY <2>2, <2>3, <2>4, <2>6, Transaction
\* Rows of none of the kinds that are told, in a transaction that keeps statuses
\* and labels.
<1>5. ASSUME NEW e \in Event, Record(<<e>>), UNCHANGED <<tenants, users, members, labels>>,
             e[1] \in {"user.password_set", "provider.link"}
      PROVE  AuditInv'
  <2>1. /\ <<e>> \in Seq(Event)
        /\ OfNone(<<e>>, TenantKinds) /\ OfNone(<<e>>, UserKinds)
        /\ OfNone(<<e>>, MemberKinds) /\ OfNone(<<e>>, {"label.revoke"})
    BY <1>5, OneRow
  <2>2. TenantsTold(<<e>>) /\ UsersTold(<<e>>) /\ MembersTold(<<e>>) /\ LabelsTold(<<e>>)
    BY <1>5, <2>1, Quiet
  <2> QED
    BY <1>5, <2>1, <2>2, Transaction
<1>6. ASSUME NEW u \in User, NEW p \in Password, ResetPassword(u, p)
      PROVE  AuditInv'
  <2>1. <<"user.password_set", u>> \in Event /\ p # NoPassword
    BY DEF Event
  <2> QED
    BY <1>5, <1>6, <2>1 DEF ResetPassword, SetPassword, PasswordRows
<1>7. ASSUME NEW id \in Identity, NEW a \in Account, LinkAccount(a, id)
      PROVE  AuditInv'
  <2>1. <<"provider.link", a>> \in Event
    BY DEF Event
  <2> QED
    BY <1>5, <1>7, <2>1 DEF LinkAccount, directoryVars
<1>8. ASSUME NEW u \in User, NEW t \in Tenant, NEW L \in SUBSET Label, SaveMembership(u, t, L)
      PROVE  AuditInv'
  <2> DEFINE e == <<"membership.upsert", <<u, t>> >>
  <2>1. e \in Event /\ e[1] = "membership.upsert"
    BY DEF Event, Identity
  <2>2. /\ <<e>> \in Seq(Event)
        /\ \A x : Has(<<e>>, x) <=> x = e
        /\ OfNone(<<e>>, TenantKinds) /\ OfNone(<<e>>, UserKinds)
    BY <2>1, OneRow
  <2>3. Record(<<e>>) /\ UNCHANGED <<tenants, users>>
    BY <1>8 DEF SaveMembership, AddMembership
  <2>4. MembersTold(<<e>>)
    BY <1>8, <2>2 DEF MembersTold, Told, SaveMembership, AddMembership, Identity
  <2>5. LabelsTold(<<e>>)
    BY <1>8, <2>2 DEF LabelsTold, SaveMembership, Identity
  <2>6. TenantsTold(<<e>>) /\ UsersTold(<<e>>)
    BY <2>2, <2>3, Quiet
  <2> QED
    BY <2>2, <2>3, <2>4, <2>5, <2>6, Transaction
<1>9. ASSUME NEW u \in User, NEW t \in Tenant, DropMembership(u, t)
      PROVE  AuditInv'
  <2> DEFINE e == <<"membership.disable", <<u, t>> >>
  <2>1. e \in Event /\ e[1] = "membership.disable"
    BY DEF Event, Identity
  <2>2. /\ <<e>> \in Seq(Event)
        /\ \A x : Has(<<e>>, x) <=> x = e
        /\ OfNone(<<e>>, TenantKinds) /\ OfNone(<<e>>, UserKinds) /\ OfNone(<<e>>, {"label.revoke"})
    BY <2>1, OneRow
  <2>3. Record(<<e>>) /\ UNCHANGED <<tenants, users, labels>>
    BY <1>9 DEF DropMembership, RemoveMembership
  <2>4. MembersTold(<<e>>)
    BY <1>9, <2>2 DEF MembersTold, Told, DropMembership, RemoveMembership, Identity
  <2>5. TenantsTold(<<e>>) /\ UsersTold(<<e>>) /\ LabelsTold(<<e>>)
    BY <2>2, <2>3, Quiet
  <2> QED
    BY <2>2, <2>3, <2>4, <2>5, Transaction
<1>10. ASSUME NEW id \in Identity, NEW l \in Label, GrantLabel(id, l) \/ RevokeLabel(id, l)
       PROVE  AuditInv'
  <2>1. PICK e \in {<<"label.grant", <<id, l>> >>, <<"label.revoke", <<id, l>> >>} :
          Record(<<e>>) /\ \/ e[1] = "label.grant" /\ GrantLabel(id, l)
                           \/ e[1] = "label.revoke" /\ RevokeLabel(id, l)
    BY <1>10 DEF GrantLabel, RevokeLabel
  <2>2. e \in Event /\ UNCHANGED <<tenants, users, members>>
    BY <2>1 DEF GrantLabel, RevokeLabel, Event, directoryVars
  <2>3. /\ <<e>> \in Seq(Event)
        /\ \A x : Has(<<e>>, x) <=> x = e
        /\ OfNone(<<e>>, TenantKinds) /\ OfNone(<<e>>, UserKinds) /\ OfNone(<<e>>, MemberKinds)
    BY <2>1, <2>2, OneRow
  <2>4. LabelsTold(<<e>>)
    BY <2>1, <2>3 DEF LabelsTold, GrantLabel, RevokeLabel
  <2>5. TenantsTold(<<e>>) /\ UsersTold(<<e>>) /\ MembersTold(<<e>>)
    BY <2>2, <2>3, Quiet
  <2> QED
    BY <2>1, <2>3, <2>4, <2>5, Transaction
<1>11. CASE SeedCatalog
  <2>1. Record(SeedRows) /\ Seed
    BY <1>11 DEF SeedCatalog
  <2>2. TenantsTold(SeedRows)
    <3>1. ASSUME NEW t \in Tenant
          PROVE  /\ Has(SeedRows, <<"tenant.upsert", t>>) <=> t \in SeedTenants
                 /\ ~Has(SeedRows, <<"tenant.disable", t>>)
                 /\ ~Has(SeedRows, <<"tenant.enable", t>>)
      BY SeedTells
    <3>2. \A t \in Tenant : tenants'[t] = IF t \in SeedTenants THEN Upsert(tenants[t]) ELSE tenants[t]
      BY <2>1 DEF Seed
    <3> QED
      BY <3>1, <3>2 DEF TenantsTold, Told
  <2>3. UsersTold(SeedRows)
    <3>1. ASSUME NEW u \in User
          PROVE  /\ Has(SeedRows, <<"user.upsert", u>>) <=> u \in SeedUsers
                 /\ ~Has(SeedRows, <<"user.disable", u>>)
                 /\ ~Has(SeedRows, <<"user.enable", u>>)
      BY SeedTells
    <3>2. \A u \in User : users'[u] = IF u \in SeedUsers THEN Upsert(users[u]) ELSE users[u]
      BY <2>1 DEF Seed
    <3> QED
      BY <3>1, <3>2 DEF UsersTold, Told
  <2>4. MembersTold(SeedRows)
    <3>1. ASSUME NEW id \in Identity
          PROVE  /\ Has(SeedRows, <<"membership.upsert", id>>) <=> id \in SeedMembers
                 /\ ~Has(SeedRows, <<"membership.disable", id>>)
      BY SeedTells
    <3>2. \A id \in Identity : members'[id] = IF id \in SeedMembers THEN "active" ELSE members[id]
      BY <2>1 DEF Seed
    <3> QED
      BY <3>1, <3>2 DEF MembersTold, Told
  <2>5. LabelsTold(SeedRows)
    <3>1. \A id \in Identity : /\ id \in SeedMembers => Has(SeedRows, <<"membership.upsert", id>>)
                               /\ \A l : ~Has(SeedRows, <<"label.revoke", <<id, l>> >>)
      BY SeedTells
    <3>2. \A id \in Identity : labels'[id] = IF id \in SeedMembers THEN SeedLabels[id] ELSE labels[id]
      BY <1>11 DEF SeedCatalog
    <3> QED
      BY <3>1, <3>2 DEF LabelsTold
  <2>6. SeedRows \in Seq(Event)
    BY SeedHas
  <2> QED
    BY <2>1, <2>2, <2>3, <2>4, <2>5, <2>6, Transaction
<1>12. CASE Refused \/ UNCHANGED catalogVars
  <2>1. UNCHANGED <<tenants, users, members, labels, audit>>
    BY <1>12, RefusedIsNothing DEF catalogVars, directoryVars
  <2>2. AuditReplays'
    BY <2>1, Zenon DEF AuditInv, AuditReplays
  <2>3. LabelsExplained'
    <3> SUFFICES ASSUME NEW id \in Identity, NEW l \in labels'[id]
                 PROVE  \E i \in DOMAIN audit' :
                          /\ audit'[i] \in {<<"label.grant", <<id, l>> >>, <<"membership.upsert", id>>}
                          /\ \A j \in i + 1 .. Len(audit') : audit'[j] # <<"label.revoke", <<id, l>> >>
      BY DEF LabelsExplained
    <3>1. l \in labels[id] /\ audit' = audit
      BY <2>1
    <3>2. PICK i \in DOMAIN audit :
            /\ audit[i] \in {<<"label.grant", <<id, l>> >>, <<"membership.upsert", id>>}
            /\ \A j \in i + 1 .. Len(audit) : audit[j] # <<"label.revoke", <<id, l>> >>
      BY <3>1 DEF AuditInv, LabelsExplained
    <3> QED
      BY <3>1, <3>2, Zenon
  <2> QED
    BY <2>1, <2>2, <2>3 DEF AuditInv
<1>13. \A u \in User, t \in Tenant : <<u, t>> \in Identity
  BY DEF Identity
<1>14. ASSUME NEW u \in User, NEW t \in Tenant,
              \/ \E l \in Label : GrantLabel(<<u, t>>, l) \/ RevokeLabel(<<u, t>>, l)
              \/ \E a \in Account : LinkAccount(a, <<u, t>>)
       PROVE  AuditInv'
  <2>1. <<u, t>> \in Identity
    BY <1>13
  <2> QED
    BY <1>7, <1>10, <1>14, <2>1
<1>15. ASSUME NEW u \in User, NEW t \in Tenant,
              \/ \E L \in SUBSET Label : SaveMembership(u, t, L)
              \/ DropMembership(u, t)
       PROVE  AuditInv'
  BY <1>8, <1>9, <1>15
<1>16. ASSUME NEW u \in User,
              \/ \E p \in Password \cup {NoPassword} : UpsertUser(u, p)
              \/ \E disabled \in BOOLEAN : SetUserDisabled(u, disabled)
              \/ \E p \in Password : ResetPassword(u, p)
       PROVE  AuditInv'
  BY <1>3, <1>4, <1>6, <1>16
<1>17. ASSUME NEW t \in Tenant,
              \/ \E k \in TenantName : UpsertTenant(t, k)
              \/ \E disabled \in BOOLEAN : SetTenantDisabled(t, disabled)
       PROVE  AuditInv'
  BY <1>1, <1>2, <1>17
<1> HIDE DEF RowTypes, DirectoryTypeOK
<1> QED
  BY <1>11, <1>12, <1>14, <1>15, <1>16, <1>17 DEF CatalogNext, Refused

\* The properties of the run, from both invariants.
LEMMA CatalogInvariant == CatalogSpec => [](CatalogInv /\ AuditInv)
<1>1. ASSUME CatalogInv, AuditInv, [CatalogNext]_catalogVars PROVE CatalogInv' /\ AuditInv'
  BY <1>1, StepCatalog, StepAudit DEF CatalogInv
<1> QED
  BY InitCatalog, InitAudit, <1>1, PTL DEF CatalogSpec

\* Every row keeps its type and the trail its bound.
THEOREM CatalogTypeCorrect == CatalogSpec => []CatalogTypeOK
<1>1. CatalogInv /\ AuditInv => CatalogTypeOK
  BY DEF CatalogInv, RowTypes, AuditInv, CatalogTypeOK
<1> QED
  BY <1>1, CatalogInvariant, PTL

\* However long the trail and whatever is upserted, disabled, enabled, rolled
\* back and seeded again in whatever order: the trail alone gives the status of
\* every row.
THEOREM AuditIsFaithful == CatalogSpec => []AuditReplays
<1>1. CatalogInv /\ AuditInv => AuditReplays
  BY DEF AuditInv
<1> QED
  BY <1>1, CatalogInvariant, PTL

\* A revoked role or group is back only after a later row of the trail that
\* brought it back.
THEOREM LabelsAreExplained == CatalogSpec => []LabelsExplained
<1>1. CatalogInv /\ AuditInv => LabelsExplained
  BY DEF AuditInv
<1> QED
  BY <1>1, CatalogInvariant, PTL

-----------------------------------------------------------------------------
(* Tenant keys.                                                            *)

KeysDistinct ==
  \A s, t \in Tenant : s # t /\ tenantKey[s] # NoKey => tenantKey[s] # tenantKey[t]

LEMMA StepKeys ==
  ASSUME RowTypes, KeysDistinct, [CatalogNext]_catalogVars
  PROVE  KeysDistinct'
<1>1. tenantKey \in [Tenant -> TenantName \cup {NoKey}]
  BY DEF RowTypes
<1>2. ASSUME NEW t \in Tenant, NEW k \in TenantName, UpsertTenant(t, k)
      PROVE  KeysDistinct'
  BY <1>1, <1>2 DEF UpsertTenant, KeyFree, KeysDistinct
<1>3. CASE SeedCatalog
  <2> DEFINE file == SetToSeq(SeedTenants)
  <2>1. /\ DOMAIN file = 1 .. Len(file) /\ Len(file) \in Nat
        /\ \A i \in DOMAIN file : file[i] \in SeedTenants
        /\ \A x \in SeedTenants : \E i \in DOMAIN file : file[i] = x
    <3>1. /\ file \in Seq(SeedTenants)
          /\ Len(file) \in Nat /\ DOMAIN file = 1 .. Len(file)
          /\ \A x \in SeedTenants : \E i \in DOMAIN file : file[i] = x
      BY SetToSeqIs
    <3> HIDE DEF file
    <3> QED
      BY <3>1
  <2>2. \A i \in DOMAIN file : \A other \in Tenant \ {file[i]} :
          SeedKey[file[i]] #
            IF \E j \in 1 .. i - 1 : file[j] = other THEN SeedKey[other] ELSE tenantKey[other]
    BY <1>3 DEF SeedCatalog, SeedKeysFree
  <2> HIDE DEF file
  <2>3. tenantKey' = [t \in Tenant |-> IF t \in SeedTenants THEN SeedKey[t] ELSE tenantKey[t]]
    BY <1>3 DEF SeedCatalog
  \* The later of the two in the file was checked against the other.
  <2>4. ASSUME NEW s \in SeedTenants, NEW t \in SeedTenants, s # t
        PROVE  SeedKey[s] # SeedKey[t]
    <3>1. PICK i \in DOMAIN file, j \in DOMAIN file : file[i] = s /\ file[j] = t
      BY <2>1
    <3>2. i < j \/ j < i
      BY <2>1, <2>4, <3>1
    <3>3. ASSUME i < j PROVE SeedKey[t] # SeedKey[s]
      <4>1. i \in 1 .. j - 1 /\ s \in Tenant \ {t}
        BY <2>1, <2>4, <3>1, <3>3
      <4> QED
        BY <2>2, <3>1, <4>1
    <3>4. ASSUME j < i PROVE SeedKey[s] # SeedKey[t]
      <4>1. j \in 1 .. i - 1 /\ t \in Tenant \ {s}
        BY <2>1, <2>4, <3>1, <3>4
      <4> QED
        BY <2>2, <3>1, <4>1
    <3> QED
      BY <3>2, <3>3, <3>4
  \* One that is not in the file has kept its key.
  <2>5. ASSUME NEW s \in SeedTenants, NEW t \in Tenant \ SeedTenants
        PROVE  SeedKey[s] # tenantKey[t]
    <3>1. PICK i \in DOMAIN file : file[i] = s
      BY <2>1
    <3>2. t \in Tenant \ {s} /\ \A j \in 1 .. i - 1 : file[j] # t
      BY <2>1, <2>5, <3>1
    <3> QED
      BY <2>2, <3>1, <3>2
  <2> QED
    BY <2>3, <2>4, <2>5 DEF KeysDistinct
<1>4. ASSUME UNCHANGED tenantKey PROVE KeysDistinct'
  BY <1>4 DEF KeysDistinct
<1>5. ASSUME CatalogNext \/ UNCHANGED catalogVars,
             ~SeedCatalog, \A t \in Tenant : \A k \in TenantName : ~UpsertTenant(t, k)
      PROVE  UNCHANGED tenantKey
  BY <1>5, RefusedIsNothing DEF CatalogNext, Refused, catalogVars, SetTenantDisabled, UpsertUser,
     SetUserDisabled, ResetPassword, SaveMembership, DropMembership, GrantLabel, RevokeLabel,
     LinkAccount
<1> QED
  BY <1>2, <1>3, <1>4, <1>5

\* Where no key is another tenant's id, a name finds one tenant.
LEMMA OneTenantPerName ==
  ASSUME KeysDistinct, RowTypes,
         \A t \in Tenant : tenantKey[t] \notin Tenant \ {t},
         NEW s \in Tenant, NEW t \in Tenant, NEW name \in TenantName,
         name \in {s, tenantKey[s]}, name \in {t, tenantKey[t]}
  PROVE  s = t
<1>1. name # NoKey
  OBVIOUS
<1> QED
  BY <1>1 DEF KeysDistinct

\* Whatever tenants are upserted and seeded with whatever keys, a login with a
\* tenant's name finds at most one identity of the user, unless one tenant's key
\* is another's id.
THEOREM LookupsAreUnambiguous == CatalogSpec => []LookupUnambiguous
<1>1. CatalogInit => KeysDistinct
  BY DEF CatalogInit, KeysDistinct
<1>2. ASSUME CatalogInv, KeysDistinct PROVE LookupUnambiguous
  <2> SUFFICES ASSUME \A t \in Tenant : tenantKey[t] \notin Tenant \ {t},
                      NEW u \in User, NEW name \in TenantName
               PROVE  Cardinality(IdentityRows(u, name)) <= 1
    BY DEF LookupUnambiguous
  <2>1. Cardinality({}) = 0 /\ \A x : Cardinality({x}) = 1
    BY FS_EmptySet, FS_Singleton
  <2>2. ASSUME NEW id \in IdentityRows(u, name) PROVE IdentityRows(u, name) = {id}
    <3>1. ASSUME NEW other \in IdentityRows(u, name) PROVE other = id
      <4>1. /\ id \in {u} \X Tenant /\ name \in {id[2], tenantKey[id[2]]}
            /\ other \in {u} \X Tenant /\ name \in {other[2], tenantKey[other[2]]}
        BY <2>2, <3>1 DEF IdentityRows
      <4>2. id[2] = other[2]
        BY <1>2, <4>1, OneTenantPerName DEF CatalogInv
      <4> QED
        BY <4>1, <4>2
    <3> QED
      BY <2>2, <3>1
  <2>3. CASE IdentityRows(u, name) = {}
    BY <2>1, <2>3
  <2>4. ASSUME NEW id \in IdentityRows(u, name) PROVE Cardinality(IdentityRows(u, name)) <= 1
    <3>1. IdentityRows(u, name) = {id}
      BY <2>2
    <3>2. Cardinality(IdentityRows(u, name)) = 1
      BY <2>1, <3>1
    <3> QED
      BY <3>2
  <2> QED
    BY <2>3, <2>4
<1>3. CatalogInv /\ KeysDistinct => LookupUnambiguous
  BY <1>2
<1>4. ASSUME CatalogInv, KeysDistinct, [CatalogNext]_catalogVars PROVE CatalogInv' /\ KeysDistinct'
  BY <1>4, StepCatalog, StepKeys DEF CatalogInv
<1> QED
  BY InitCatalog, <1>1, <1>3, <1>4, PTL DEF CatalogSpec

=============================================================================
