-------------------------- MODULE LocalLoginProofs --------------------------
(***************************************************************************)
(* Proofs about ConfigIdentity and LocalLogin, for any users, tenants and  *)
(* configuration files of any length.                                      *)
(***************************************************************************)
EXTENDS LocalLogin, WellFoundedInduction, TLAPS

-----------------------------------------------------------------------------
(* What the lookups find: the first entry of the kind, if there is one.    *)

LEMMA MinIs ==
  ASSUME NEW I \in SUBSET Nat, I # {}
  PROVE  Min(I) \in I /\ \A i \in I : Min(I) <= i
<1>1. PICK x \in I : \A y \in I : ~(<<y, x>> \in OpToRel(<, Nat))
  BY NatLessThanWellFounded, WFMin
<1>2. ASSUME NEW y \in I PROVE x <= y
  <2>1. x \in Nat /\ y \in Nat
    OBVIOUS
  <2>2. y < x => <<y, x>> \in OpToRel(<, Nat)
    BY <2>1 DEF OpToRel
  <2>3. ~(y < x)
    BY <1>1, <2>2
  <2> QED
    BY <2>1, <2>3
<1> QED
  BY <1>2 DEF Min

\* A loaded configuration.
LoadedTenant == [id : TenantName, key : TenantName]

LoadedUser ==
  [id : UserName, key : UserValue \ {NoUser}, tid : TenantName, tkey : TenantName,
   password : Secret \cup {NoSecret}, profile : Nat]

Loaded(c) ==
  /\ c.tenants \in Seq(LoadedTenant)
  /\ c.users \in Seq(LoadedUser)
  /\ \A i \in DOMAIN c.users : c.users[i].profile = i
  /\ c.unknownUsers \in BOOLEAN /\ c.unknownTenants \in BOOLEAN

Asked(u, value, name) == Candidate(u, name) /\ value \in {NoUser, u.key, u.id}

LEMMA KnownUserIs ==
  ASSUME NEW c, Loaded(c), NEW value, NEW name
  PROVE  LET k == KnownUser(c, value, name) IN
           \/ /\ k = 0
              /\ \A i \in DOMAIN c.users : ~Asked(c.users[i], value, name)
           \/ /\ k \in DOMAIN c.users
              /\ k # 0
              /\ Asked(c.users[k], value, name)
              /\ \A i \in DOMAIN c.users : Asked(c.users[i], value, name) => k <= i
<1> DEFINE I == {i \in 1..Len(c.users) : Asked(c.users[i], value, name)}
<1>1. KnownUser(c, value, name) = IF I # {} THEN Min(I) ELSE 0
  BY DEF KnownUser, SelectInSeq, Asked
<1>2. DOMAIN c.users = 1..Len(c.users) /\ I \in SUBSET Nat /\ Len(c.users) \in Nat
  BY DEF Loaded
<1>3. I # {} => Min(I) \in I /\ \A i \in I : Min(I) <= i
  BY <1>2, MinIs
<1>4. CASE I = {}
  BY <1>1, <1>2, <1>4
<1>5. CASE I # {}
  <2>1. KnownUser(c, value, name) = Min(I)
    BY <1>1, <1>5
  <2> DEFINE k == Min(I)
  <2> HIDE DEF k
  <2>2. k \in I /\ \A i \in I : k <= i
    BY <1>3, <1>5 DEF k
  <2>3. KnownUser(c, value, name) = k
    BY <2>1 DEF k
  <2>4. k \in DOMAIN c.users /\ k # 0 /\ Asked(c.users[k], value, name)
    BY <1>2, <2>2
  <2> QED
    BY <1>2, <2>2, <2>3, <2>4
<1> QED
  BY <1>4, <1>5

LEMMA TenantForIs ==
  ASSUME NEW c, Loaded(c), NEW name \in TenantName \cup {NoName}
  PROVE  \/ \E j \in DOMAIN c.tenants :
              TenantNamed(c.tenants[j], name) /\ TenantFor(c, name) = c.tenants[j]
         \/ /\ \A j \in DOMAIN c.tenants : ~TenantNamed(c.tenants[j], name)
            /\ TenantFor(c, name) = IF c.unknownTenants
                 THEN [id |-> FirstName(name, DefaultTenant), key |-> FirstName(name, DefaultTenant)]
                 ELSE NoTenant
<1> DEFINE I == {j \in 1..Len(c.tenants) : TenantNamed(c.tenants[j], name)}
           known == KnownTenant(c, name)
<1>1. known = IF I # {} THEN Min(I) ELSE 0
  BY DEF KnownTenant, SelectInSeq
<1>2. DOMAIN c.tenants = 1..Len(c.tenants) /\ I \in SUBSET Nat /\ Len(c.tenants) \in Nat
  BY DEF Loaded
<1>3. I # {} => Min(I) \in I
  BY <1>2, MinIs
<1>4. TenantFor(c, name) = IF known # 0 THEN c.tenants[known]
        ELSE IF c.unknownTenants
          THEN [id |-> FirstName(name, DefaultTenant), key |-> FirstName(name, DefaultTenant)]
          ELSE NoTenant
  BY DEF TenantFor
<1> HIDE DEF known
<1>5. CASE I = {}
  BY <1>1, <1>2, <1>4, <1>5
<1>6. CASE I # {}
  <2>1. known \in I /\ known # 0
    BY <1>1, <1>2, <1>3, <1>6
  <2> QED
    BY <1>2, <1>4, <2>1
<1> QED
  BY <1>5, <1>6

LEMMA TenantForType ==
  ASSUME NEW c, Loaded(c), NEW name \in TenantName \cup {NoName}
  PROVE  TenantFor(c, name) \in LoadedTenant \cup {NoTenant}
<1>1. ASSUME NEW j \in DOMAIN c.tenants PROVE c.tenants[j] \in LoadedTenant
  BY DEF Loaded
<1>2. FirstName(name, DefaultTenant) \in TenantName
  BY DEF FirstName, TenantName
<1> QED
  BY <1>1, <1>2, TenantForIs DEF LoadedTenant

-----------------------------------------------------------------------------
(* Tenants of a file without ambiguous names.                              *)

\* A tenant that was found is found again by its id and by its key.
LEMMA TenantFoundAgain ==
  ASSUME NEW c, Loaded(c), Unambiguous(c), NEW name \in TenantName \cup {NoName},
         TenantFor(c, name) # NoTenant, NEW m \in {TenantFor(c, name).id, TenantFor(c, name).key}
  PROVE  m \in TenantName /\ TenantFor(c, m) = TenantFor(c, name)
<1> DEFINE t == TenantFor(c, name)
<1>1. t \in LoadedTenant
  BY TenantForType
<1>2. m \in TenantName /\ m # NoName
  BY <1>1, NameAssumption DEF LoadedTenant
<1>3. ASSUME NEW j \in DOMAIN c.tenants, t = c.tenants[j] PROVE TenantFor(c, m) = t
  <2>1. TenantNamed(c.tenants[j], m)
    BY <1>3 DEF TenantNamed
  <2>2. PICK k \in DOMAIN c.tenants :
          TenantNamed(c.tenants[k], m) /\ TenantFor(c, m) = c.tenants[k]
    BY <1>2, <2>1, TenantForIs
  <2>3. m \in {c.tenants[j].id, c.tenants[j].key} \cap {c.tenants[k].id, c.tenants[k].key}
    BY <1>2, <2>1, <2>2 DEF TenantNamed
  <2>4. j = k
    BY <2>3 DEF Unambiguous
  <2> QED
    BY <1>3, <2>2, <2>4
<1>4. ASSUME \A j \in DOMAIN c.tenants : ~TenantNamed(c.tenants[j], name),
             c.unknownTenants,
             t = [id |-> FirstName(name, DefaultTenant), key |-> FirstName(name, DefaultTenant)]
      PROVE  TenantFor(c, m) = t
  <2>1. m = FirstName(name, DefaultTenant)
    BY <1>4
  <2>2. \A j \in DOMAIN c.tenants : ~TenantNamed(c.tenants[j], m)
    BY <1>2, <1>4, <2>1 DEF TenantNamed, FirstName
  <2>3. FirstName(m, DefaultTenant) = m
    BY <1>2 DEF FirstName
  <2> QED
    BY <1>2, <1>4, <2>1, <2>2, <2>3, TenantForIs
<1> QED
  BY <1>2, <1>3, <1>4, TenantForIs

EntryTenant(u) == [id |-> u.tid, key |-> u.tkey]

\* Whoever names the tenant of an entry means the tenant the entry says.
LEMMA EntryTenantFound ==
  ASSUME NEW c, Loaded(c), Unambiguous(c), Agreeing(c), NEW i \in DOMAIN c.users,
         NEW name \in TenantName, Candidate(c.users[i], name)
  PROVE  TenantFor(c, name) \in {EntryTenant(c.users[i]), NoTenant}
<1> DEFINE u == c.users[i]
<1>1. name # NoName /\ name \in {u.tid, u.tkey}
  BY NameAssumption DEF Candidate
<1>2. CASE \E j \in DOMAIN c.tenants : c.tenants[j] = EntryTenant(u)
  <2>1. PICK j \in DOMAIN c.tenants : c.tenants[j] = EntryTenant(u)
    BY <1>2
  <2>2. TenantNamed(c.tenants[j], name)
    BY <1>1, <2>1 DEF TenantNamed, EntryTenant
  <2>3. PICK k \in DOMAIN c.tenants :
          TenantNamed(c.tenants[k], name) /\ TenantFor(c, name) = c.tenants[k]
    BY <2>2, TenantForIs
  <2>4. name \in {c.tenants[j].id, c.tenants[j].key} \cap {c.tenants[k].id, c.tenants[k].key}
    BY <1>1, <2>2, <2>3 DEF TenantNamed
  <2>5. j = k
    BY <2>4 DEF Unambiguous
  <2> QED
    BY <2>1, <2>3, <2>5
<1>3. CASE /\ u.tid = u.tkey
           /\ \A j \in DOMAIN c.tenants : u.tid \notin {c.tenants[j].id, c.tenants[j].key}
  <2>1. name = u.tid
    BY <1>1, <1>3
  <2>2. \A j \in DOMAIN c.tenants : ~TenantNamed(c.tenants[j], name)
    BY <1>1, <1>3, <2>1 DEF TenantNamed
  <2>3. FirstName(name, DefaultTenant) = name
    BY <1>1 DEF FirstName
  <2> QED
    BY <1>3, <2>1, <2>2, <2>3, TenantForIs DEF EntryTenant
<1> QED
  BY <1>2, <1>3 DEF Agreeing, EntryTenant

\* The users of a tenant are the same, whether it is named by id, key or name.
LEMMA SameCandidates ==
  ASSUME NEW c, Loaded(c), Unambiguous(c), Agreeing(c), NEW i \in DOMAIN c.users,
         NEW name \in TenantName, TenantFor(c, name) # NoTenant,
         NEW m \in {TenantFor(c, name).id, TenantFor(c, name).key},
         Candidate(c.users[i], m)
  PROVE  Candidate(c.users[i], name)
<1> DEFINE t == TenantFor(c, name)
<1>1. m \in TenantName /\ TenantFor(c, m) = t
  BY TenantFoundAgain
<1>2. t = EntryTenant(c.users[i])
  BY <1>1, EntryTenantFound
<1>3. name \in {t.id, t.key}
  BY NameAssumption, TenantForIs DEF TenantNamed, FirstName
<1> QED
  BY <1>2, <1>3 DEF EntryTenant, Candidate

-----------------------------------------------------------------------------
(* Users.                                                                  *)

Key(k) == k \in UserName \/ \E u \in BareUser : k = Prefixed(u)

LEMMA EntryType ==
  ASSUME NEW c, Loaded(c), NEW i \in DOMAIN c.users
  PROVE  /\ c.users[i] \in LoadedUser
         /\ c.users[i].profile = i /\ i # 0
         /\ Key(c.users[i].key)
<1>1. c.users[i] \in LoadedUser /\ i # 0
  BY DEF Loaded
<1> QED
  BY <1>1 DEF Loaded, LoadedUser, UserValue, Key, BareUser

LEMMA UnknownIdIs ==
  /\ UnknownId(NoUser) = DefaultUser
  /\ \A u \in UserName : UnknownId(u) = u
  /\ \A u \in BareUser : UnknownId(Prefixed(u)) = u
<1>1. ASSUME NEW u \in BareUser PROVE UnknownId(Prefixed(u)) = u
  <2>1. Prefixed(u) # NoUser /\ Prefixed(u) \notin UserName
    BY NameAssumption DEF BareUser
  <2>2. Prefixed(u)[2] = u
    BY DEF Prefixed
  <2> QED
    BY <2>1, <2>2 DEF UnknownId
<1> QED
  BY <1>1, NameAssumption DEF UnknownId, BareUser

LEMMA UnknownUserIs ==
  ASSUME NEW c, NEW value, NEW name
  PROVE  UnknownUser(c, value, name) =
           [id |-> UnknownId(value), key |-> Prefixed(UnknownId(value)),
            tid |-> TenantFor(c, name).id, tkey |-> TenantFor(c, name).key,
            password |-> c.devPassword, profile |-> 0]
  BY DEF UnknownUser

\* Who is found: an entry, a user of whom the file knows nothing, or nobody.
LEMMA UserForIs ==
  ASSUME NEW c, Loaded(c), NEW value, NEW name, UserFor(c, value, name) # Nobody
  PROVE  /\ name # NoName => TenantFor(c, name) # NoTenant
         /\ LET k == KnownUser(c, value, name) IN
              \/ k # 0 /\ UserFor(c, value, name) = c.users[k]
              \/ /\ k = 0
                 /\ c.unknownUsers
                 /\ TenantFor(c, name) # NoTenant
                 /\ UserFor(c, value, name) = UnknownUser(c, value, name)
  BY DEF UserFor

LEMMA UserForKnown ==
  ASSUME NEW c, NEW value, NEW name, NEW k, TenantFor(c, name) # NoTenant, KnownUser(c, value, name) = k
  PROVE  /\ k # 0 => UserFor(c, value, name) = c.users[k]
         /\ k = 0 /\ c.unknownUsers => UserFor(c, value, name) = UnknownUser(c, value, name)
  BY DEF UserFor

LEMMA ClaimsForIs ==
  ASSUME NEW c, NEW value, NEW name, ClaimsFor(c, value, name) # NoClaims
  PROVE  /\ UserFor(c, value, name) # Nobody
         /\ TenantOf(c, UserFor(c, value, name), name) # NoTenant
         /\ ClaimsFor(c, value, name) =
              Claims(UserFor(c, value, name), TenantOf(c, UserFor(c, value, name), name))
  BY DEF ClaimsFor

\* A user who is looked up by a key has it, when no key is somebody else's.
LEMMA SubjectFound ==
  ASSUME NEW c, Loaded(c), KeysApart(c), NEW key, NEW name,
         \/ \E i \in DOMAIN c.users : key = c.users[i].key
         \/ \E u \in BareUser : key = Prefixed(u),
         ClaimsFor(c, key, name) # NoClaims
  PROVE  ClaimsFor(c, key, name).sub = key
<1> DEFINE user == UserFor(c, key, name)
           k == KnownUser(c, key, name)
<1> HIDE DEF user, k
<1>1. user # Nobody /\ ClaimsFor(c, key, name).sub = user.key
  BY ClaimsForIs DEF user, Claims
<1>2. \/ k # 0 /\ user = c.users[k]
      \/ k = 0 /\ c.unknownUsers /\ user = UnknownUser(c, key, name)
  BY <1>1, UserForIs DEF user, k
<1>3. Key(key) /\ key # NoUser
  BY EntryType, NameAssumption DEF Key, BareUser
<1>4. CASE k # 0
  <2>1. k \in DOMAIN c.users /\ Asked(c.users[k], key, name)
    BY <1>4, KnownUserIs DEF k
  <2>2. key \in {c.users[k].key, c.users[k].id}
    BY <1>3, <2>1 DEF Asked
  <2>3. c.users[k].id \in UserName
    BY <2>1, EntryType DEF LoadedUser
  <2>4. c.users[k].id = key => c.users[k].key = key
    <3>1. SUFFICES ASSUME c.users[k].id = key PROVE c.users[k].key = key
      OBVIOUS
    <3>2. key \in UserName
      BY <2>3, <3>1
    <3>3. PICK i \in DOMAIN c.users : key = c.users[i].key
      BY <3>2, NameAssumption DEF BareUser
    <3> QED
      BY <2>1, <3>1, <3>2, <3>3 DEF KeysApart
  <2> QED
    BY <1>1, <1>2, <1>4, <2>2, <2>4
<1>5. CASE k = 0
  <2>1. c.unknownUsers /\ user = UnknownUser(c, key, name)
    BY <1>2, <1>5
  <2>2. key \notin UserName
    BY <2>1, NameAssumption DEF KeysApart, BareUser
  <2>3. PICK u \in BareUser : key = Prefixed(u)
    BY <1>3, <2>2 DEF Key
  <2>4. user.key = Prefixed(u)
    BY <2>1, <2>3, UnknownUserIs, UnknownIdIs
  <2> QED
    BY <1>1, <2>3, <2>4
<1> QED
  BY <1>4, <1>5

\* With a consistent file, the claims of an identity are found again by what
\* they say of user and tenant.
LEMMA ClaimsFoundAgain ==
  ASSUME NEW c, Loaded(c), Consistent(c), NEW value \in UserValue, NEW name \in NameValue,
         ClaimsFor(c, value, name) # NoClaims,
         NEW m \in {ClaimsFor(c, value, name).tenantId, ClaimsFor(c, value, name).tenantKey}
  PROVE  /\ ClaimsFor(c, ClaimsFor(c, value, name).sub, m) = ClaimsFor(c, value, name)
         /\ TenantOf(c, UserFor(c, ClaimsFor(c, value, name).sub, m), m)
              = TenantOf(c, UserFor(c, value, name), name)
<1> DEFINE user == UserFor(c, value, name)
           tenant == TenantOf(c, user, name)
           k == KnownUser(c, value, name)
<1> HIDE DEF user, tenant, k
<1>1. /\ user # Nobody
      /\ tenant # NoTenant
      /\ ClaimsFor(c, value, name) = Claims(user, tenant)
  BY ClaimsForIs DEF user, tenant
<1>2. m \in {tenant.id, tenant.key} /\ ClaimsFor(c, value, name).sub = user.key
  BY <1>1 DEF Claims
<1>3. name \in TenantName \cup {NoName} /\ Unambiguous(c) /\ Agreeing(c) /\ KeyedById(c)
  BY DEF NameValue, TenantName, Consistent
<1>4. /\ name # NoName => TenantFor(c, name) # NoTenant
      /\ \/ k # 0 /\ user = c.users[k]
         \/ /\ k = 0
            /\ c.unknownUsers
            /\ TenantFor(c, name) # NoTenant
            /\ user = UnknownUser(c, value, name)
  BY <1>1, UserForIs DEF user, k
<1>5. /\ name # NoName => tenant = TenantFor(c, name)
      /\ name = NoName => tenant = TenantFor(c, user.tid)
  BY DEF tenant, TenantOf, FirstName
<1>6. SUFFICES /\ ClaimsFor(c, user.key, m) = Claims(user, tenant)
               /\ TenantOf(c, UserFor(c, user.key, m), m) = tenant
  BY <1>1, <1>2 DEF user, tenant
\* It is enough that the same user is found.
<1>7. ASSUME m \in TenantName, TenantFor(c, m) = tenant,
             UserFor(c, user.key, m) \in [id : {user.id}, key : {user.key}, tid : TenantName, tkey : TenantName,
                                          password : {user.password}, profile : {user.profile}]
      PROVE  /\ ClaimsFor(c, user.key, m) = Claims(user, tenant)
             /\ TenantOf(c, UserFor(c, user.key, m), m) = tenant
  <2> DEFINE again == UserFor(c, user.key, m)
  <2> HIDE DEF again
  <2>1. /\ again.id = user.id /\ again.key = user.key /\ again.profile = user.profile
        /\ again.tid \in TenantName
    BY <1>7 DEF again
  <2>2. TenantOf(c, again, m) = tenant
    BY <1>7, NameAssumption DEF TenantOf, FirstName
  <2>3. again # Nobody
    BY <2>1, NameAssumption DEF Nobody
  <2>4. ClaimsFor(c, user.key, m) = Claims(again, tenant)
    BY <1>1, <2>2, <2>3 DEF ClaimsFor, again
  <2> QED
    BY <2>1, <2>2, <2>4 DEF Claims, again
\* Whoever is asked for by that key in that tenant was asked for before.
<1>8. ASSUME m \in TenantName, NEW i \in DOMAIN c.users, Asked(c.users[i], user.key, m),
             name # NoName => tenant = TenantFor(c, name),
             user.key = Prefixed(user.id), user.id \in BareUser,
             value \in {NoUser, user.id, Prefixed(user.id)}
      PROVE  Asked(c.users[i], value, name)
  <2> DEFINE u == c.users[i]
  <2> HIDE DEF u
  <2>1. u.key = Prefixed(u.id) /\ u.id \in UserName
    BY <1>3, EntryType DEF KeyedById, LoadedUser, u
  <2>2. user.key # NoUser /\ user.key # u.id
    BY <1>8, <2>1, NameAssumption DEF BareUser
  <2>3. user.key = u.key
    BY <1>8, <2>2 DEF Asked, u
  <2>4. user.id = u.id
    BY <1>8, <2>1, <2>3 DEF Prefixed
  <2>5. Candidate(u, name)
    <3>1. CASE name = NoName
      BY <3>1 DEF Candidate
    <3>2. CASE name # NoName
      BY <1>1, <1>2, <1>3, <1>8, <3>2, SameCandidates DEF Asked, u
    <3> QED
      BY <3>1, <3>2
  <2> QED
    BY <1>8, <2>1, <2>4, <2>5 DEF Asked, u
<1>9. CASE k # 0
  <2> DEFINE u == c.users[k]
  <2> HIDE DEF u
  <2>1. /\ k \in DOMAIN c.users /\ Asked(u, value, name) /\ user = u
        /\ \A i \in DOMAIN c.users : Asked(c.users[i], value, name) => k <= i
    BY <1>4, <1>9, KnownUserIs DEF k, u
  <2>2. u \in LoadedUser /\ u.key = Prefixed(u.id) /\ u.key # NoUser
    BY <1>3, <2>1, EntryType DEF KeyedById, LoadedUser, u
  <2> DEFINE n == FirstName(name, u.tid)
  <2> HIDE DEF n
  <2>3. n \in TenantName /\ Candidate(u, n) /\ tenant = TenantFor(c, n)
    BY <1>3, <1>5, <2>1, <2>2 DEF n, FirstName, Asked, Candidate, LoadedUser
  <2>4. tenant = EntryTenant(u)
    BY <1>1, <1>3, <2>1, <2>3, EntryTenantFound DEF u
  <2>5. m \in TenantName /\ TenantFor(c, m) = tenant
    BY <1>1, <1>2, <1>3, <2>3, TenantFoundAgain
  <2>6. Asked(u, user.key, m)
    BY <1>2, <2>1, <2>4 DEF Asked, Candidate, EntryTenant
  <2> DEFINE j == KnownUser(c, user.key, m)
  <2> HIDE DEF j
  <2>7. j \in DOMAIN c.users /\ Asked(c.users[j], user.key, m) /\ j <= k
    BY <2>1, <2>6, KnownUserIs DEF j, u
  <2>8. user.id \in BareUser /\ value \in {NoUser, user.id, Prefixed(user.id)}
    BY <2>1, <2>2 DEF Asked, LoadedUser, BareUser
  <2>9. k <= j
    BY <1>5, <1>8, <2>1, <2>2, <2>5, <2>7, <2>8
  <2>10. j = k
    BY <2>1, <2>7, <2>9 DEF Loaded
  <2>11. UserFor(c, user.key, m) = u
    BY <1>1, <1>9, <2>5, <2>10, UserForKnown DEF j, u
  <2>12. u \in [id : {u.id}, key : {u.key}, tid : TenantName, tkey : TenantName,
                password : {u.password}, profile : {u.profile}]
    BY <2>2 DEF LoadedUser
  <2> QED
    BY <1>7, <2>1, <2>5, <2>11, <2>12
<1>10. CASE k = 0
  <2> DEFINE t == TenantFor(c, name)
             id == UnknownId(value)
  <2> HIDE DEF t, id
  <2>1. /\ c.unknownUsers /\ t # NoTenant
        /\ user = [id |-> id, key |-> Prefixed(id), tid |-> t.id, tkey |-> t.key,
                   password |-> c.devPassword, profile |-> 0]
        /\ \A i \in DOMAIN c.users : ~Asked(c.users[i], value, name)
    BY <1>4, <1>10, UnknownUserIs, KnownUserIs DEF k, t, id
  <2>2. t \in LoadedTenant
    BY <1>3, <2>1, TenantForType DEF t
  <2>3. TenantFor(c, t.id) = t
    BY <1>3, <2>1, TenantFoundAgain DEF t
  <2>4. tenant = t
    BY <1>5, <2>1, <2>3 DEF t
  <2>5. m \in TenantName /\ TenantFor(c, m) = tenant
    BY <1>2, <1>3, <2>1, <2>4, TenantFoundAgain DEF t
  <2>6. id \in BareUser /\ value \in {NoUser, id, Prefixed(id)}
    BY UnknownIdIs DEF id, UserValue, BareUser
  <2>7. \A i \in DOMAIN c.users : ~Asked(c.users[i], user.key, m)
    BY <1>8, <2>1, <2>4, <2>5, <2>6 DEF t
  <2>8. KnownUser(c, user.key, m) = 0
    BY <2>7, KnownUserIs
  <2>9. UserFor(c, user.key, m) = UnknownUser(c, user.key, m)
    BY <1>1, <2>1, <2>5, <2>8, UserForKnown
  <2>10. UserFor(c, user.key, m) =
           [id |-> id, key |-> Prefixed(id), tid |-> t.id, tkey |-> t.key,
            password |-> c.devPassword, profile |-> 0]
    BY <2>1, <2>4, <2>5, <2>6, <2>9, UnknownUserIs, UnknownIdIs
  <2>11. UserFor(c, user.key, m) \in
           [id : {user.id}, key : {user.key}, tid : TenantName, tkey : TenantName,
            password : {user.password}, profile : {user.profile}]
    BY <2>1, <2>2, <2>10 DEF LoadedTenant
  <2> QED
    BY <1>7, <2>5, <2>11
<1> QED
  BY <1>9, <1>10

\* The contract check looks the identity up by exactly these.
LEMMA ContractIsMet ==
  ASSUME NEW c, Loaded(c), Consistent(c), NEW value \in UserValue, NEW name \in NameValue,
         ClaimsFor(c, value, name) # NoClaims
  PROVE  ContractPasses(c, value, name)
<1> DEFINE claims == ClaimsFor(c, value, name)
           user == UserFor(c, value, name)
           tenant == TenantOf(c, user, name)
<1> HIDE DEF claims, user, tenant
<1>1. claims # NoClaims /\ claims = Claims(user, tenant)
  BY ClaimsForIs DEF claims, user, tenant
<1>2. /\ claims.sub = user.key /\ claims.userId = user.id
      /\ claims.tenantId = tenant.id /\ claims.tenantKey = tenant.key
  BY <1>1 DEF Claims
<1>3. ClaimsFor(c, user.key, tenant.id) = claims /\ ClaimsFor(c, user.key, tenant.key) = claims
  BY <1>2, ClaimsFoundAgain DEF claims
<1>4. /\ HeadersFor(c, user.key, tenant.id).fastreact.user = claims.sub
      /\ HeadersFor(c, user.key, tenant.id).fastreact.tenant = claims.tenantKey
      /\ HeadersFor(c, user.key, tenant.id).pska.user = claims.userId
      /\ HeadersFor(c, user.key, tenant.id).pska.tenant = claims.tenantId
  BY <1>3 DEF HeadersFor
<1> QED
  BY <1>1, <1>2, <1>3, <1>4 DEF ContractPasses, user, tenant

\* With a consistent file an entry goes with its tenant.
LEMMA EntryGoesWithTenant ==
  ASSUME NEW c, Loaded(c), Consistent(c), NEW value \in UserValue, NEW name \in NameValue,
         ClaimsFor(c, value, name).profile # 0
  PROVE  LET claims == ClaimsFor(c, value, name)
             u == c.users[claims.profile]
         IN  claims.tenantId = u.tid /\ claims.tenantKey = u.tkey
<1> DEFINE claims == ClaimsFor(c, value, name)
           user == UserFor(c, value, name)
           tenant == TenantOf(c, user, name)
           k == KnownUser(c, value, name)
           u == c.users[k]
           n == FirstName(name, u.tid)
<1> HIDE DEF claims, user, tenant, k, u, n
<1>1. claims # NoClaims
  BY DEF NoClaims, Claims, Nobody, claims
<1>2. user # Nobody /\ tenant # NoTenant /\ claims = Claims(user, tenant)
  BY <1>1, ClaimsForIs DEF claims, user, tenant
<1>3. k # 0 /\ user = u
  <2>1. (k # 0 /\ user = u) \/ user = UnknownUser(c, value, name)
    BY <1>2, UserForIs DEF user, k, u
  <2>2. UnknownUser(c, value, name).profile = 0
    BY UnknownUserIs
  <2> QED
    BY <1>2, <2>1, <2>2 DEF Claims, claims
<1>4. k \in DOMAIN c.users /\ Asked(u, value, name)
  BY <1>3, KnownUserIs DEF k, u
<1>5. u \in LoadedUser /\ u.profile = k
  BY <1>4, EntryType DEF u
<1>6. n \in TenantName /\ Candidate(u, n) /\ tenant = TenantFor(c, n)
  BY <1>3, <1>4, <1>5 DEF n, FirstName, Asked, Candidate, LoadedUser, NameValue, TenantName, TenantOf, tenant
<1>7. tenant = EntryTenant(u)
  BY <1>2, <1>4, <1>6, EntryTenantFound DEF Consistent, u
<1>8. claims.profile = k /\ claims.tenantId = u.tid /\ claims.tenantKey = u.tkey
  BY <1>2, <1>3, <1>5, <1>7 DEF Claims, EntryTenant
<1> QED
  BY <1>8 DEF claims, u

\* A strict file knows whom and which tenant it vouches for.
LEMMA StrictKnows ==
  ASSUME NEW c, Loaded(c), ~c.unknownUsers, ~c.unknownTenants, NEW value \in UserValue,
         NEW name \in NameValue, ClaimsFor(c, value, name) # NoClaims
  PROVE  LET claims == ClaimsFor(c, value, name) IN
           /\ claims.profile # 0
           /\ \E i \in DOMAIN c.tenants :
                c.tenants[i] = [id |-> claims.tenantId, key |-> claims.tenantKey]
<1> DEFINE user == UserFor(c, value, name)
           k == KnownUser(c, value, name)
           n == FirstName(name, user.tid)
           tenant == TenantFor(c, n)
<1> HIDE DEF user, k, n, tenant
<1>1. user # Nobody /\ tenant # NoTenant /\ ClaimsFor(c, value, name) = Claims(user, tenant)
  BY ClaimsForIs DEF user, tenant, n, TenantOf
<1>2. k # 0 /\ user = c.users[k]
  BY <1>1, UserForIs DEF user, k
<1>3. k \in DOMAIN c.users
  BY <1>2, KnownUserIs DEF k
<1>4. user \in LoadedUser /\ user.profile = k
  BY <1>2, <1>3, EntryType
<1>5. n \in TenantName
  BY <1>4 DEF n, FirstName, LoadedUser, NameValue, TenantName
<1>6. PICK i \in DOMAIN c.tenants : tenant = c.tenants[i]
  BY <1>1, <1>5, TenantForIs DEF tenant
<1>7. c.tenants[i] = [id |-> tenant.id, key |-> tenant.key]
  <2>1. c.tenants[i] \in LoadedTenant
    BY DEF Loaded
  <2> QED
    BY <1>6, <2>1 DEF LoadedTenant
<1>8. Claims(user, tenant).profile = k /\ Claims(user, tenant).tenantId = tenant.id
      /\ Claims(user, tenant).tenantKey = tenant.key
  BY <1>4 DEF Claims
<1> QED
  BY <1>1, <1>2, <1>7, <1>8

-----------------------------------------------------------------------------
(* Loading.                                                                *)

LEMMA MaxIs ==
  ASSUME NEW n \in Nat, NEW I \in SUBSET (1..n), I # {}
  PROVE  Max(I) \in I
<1> DEFINE J == {n - i : i \in I}
<1>1. J \in SUBSET Nat /\ J # {}
  <2>1. \A i \in 1..n : n - i \in Nat
    OBVIOUS
  <2> QED
    BY <2>1
<1>2. PICK x \in I : Min(J) = n - x
  BY <1>1, MinIs
<1>3. ASSUME NEW y \in I PROVE x >= y
  <2>1. Min(J) <= n - y
    BY <1>1, MinIs
  <2> QED
    BY <1>2, <2>1
<1> QED
  BY <1>3 DEF Max

LEMMA ListedTenantType ==
  ASSUME NEW tenants \in Seq(LoadedTenant), NEW name \in TenantName \cup {NoName}
  PROVE  ListedTenant(tenants, name) \in LoadedTenant
<1> DEFINE byId == SelectLastInSeq(tenants, LAMBDA t : t.id = name)
           byKey == SelectLastInSeq(tenants, LAMBDA t : t.key = name)
<1>1. byId # 0 => byId \in DOMAIN tenants
  <2> DEFINE I == {i \in 1..Len(tenants) : tenants[i].id = name}
  <2>1. I \in SUBSET (1..Len(tenants)) /\ Len(tenants) \in Nat /\ DOMAIN tenants = 1..Len(tenants)
    OBVIOUS
  <2>2. byId = IF I # {} THEN Max(I) ELSE 0
    BY DEF SelectLastInSeq
  <2> HIDE DEF I, byId, byKey
  <2> QED
    BY <2>1, <2>2, MaxIs
<1>2. byKey # 0 => byKey \in DOMAIN tenants
  <2> DEFINE I == {i \in 1..Len(tenants) : tenants[i].key = name}
  <2>1. I \in SUBSET (1..Len(tenants)) /\ Len(tenants) \in Nat /\ DOMAIN tenants = 1..Len(tenants)
    OBVIOUS
  <2>2. byKey = IF I # {} THEN Max(I) ELSE 0
    BY DEF SelectLastInSeq
  <2> HIDE DEF I, byId, byKey
  <2> QED
    BY <2>1, <2>2, MaxIs
<1>3. FirstName(name, DefaultTenant) \in TenantName
  BY DEF FirstName, TenantName
<1>4. ListedTenant(tenants, name) =
        CASE byId # 0 -> tenants[byId]
          [] byId = 0 /\ byKey # 0 -> tenants[byKey]
          [] OTHER -> [id |-> FirstName(name, DefaultTenant), key |-> FirstName(name, DefaultTenant)]
  BY DEF ListedTenant
<1> HIDE DEF byId, byKey
<1>5. [id |-> FirstName(name, DefaultTenant), key |-> FirstName(name, DefaultTenant)] \in LoadedTenant
  BY <1>3 DEF LoadedTenant
<1>6. /\ byId # 0 => tenants[byId] \in LoadedTenant
      /\ byKey # 0 => tenants[byKey] \in LoadedTenant
  BY <1>1, <1>2
<1> HIDE DEF LoadedTenant
<1> QED
  BY <1>4, <1>5, <1>6

LEMMA LoadedFiles ==
  ASSUME NEW file \in File
  PROVE  Loaded(Load(file))
<1> DEFINE tenants == [i \in DOMAIN file.tenants |-> LoadTenant(file.tenants[i])]
           users == [i \in DOMAIN file.users |-> LoadUser(file.users[i], i, tenants)]
<1>1. /\ file \in [tenants : Seq(FileTenant), users : Seq(FileUser),
                   devPassword : Secret \cup {NoSecret},
                   unknownUsers : BOOLEAN, unknownTenants : BOOLEAN]
      /\ file.tenants \in Seq(FileTenant) /\ file.users \in Seq(FileUser)
  BY FileAssumption
<1>2. tenants \in Seq(LoadedTenant)
  <2>1. ASSUME NEW t \in FileTenant PROVE LoadTenant(t) \in LoadedTenant
    BY DEF FileTenant, LoadTenant, FirstName, LoadedTenant, NoTenant, NameValue, TenantName
  <2> QED
    BY <1>1, <2>1
<1>3. ASSUME NEW i \in DOMAIN file.users PROVE users[i] \in LoadedUser /\ users[i].profile = i
  <2> DEFINE u == file.users[i]
             tenant == ListedTenant(tenants, FirstName(u.tid, u.tkey))
  <2> HIDE DEF tenants, u, tenant
  <2>1. u \in FileUser /\ i \in Nat
    BY <1>1 DEF u
  <2>2. tenant \in LoadedTenant
    BY <1>2, <2>1, ListedTenantType DEF tenant, FirstName, FileUser, NameValue, TenantName
  <2>3. LoadUser(u, i, tenants) =
          [id |-> u.id, key |-> IF u.key = NoUser THEN Prefixed(u.id) ELSE u.key,
           tid |-> FirstName(u.tid, tenant.id), tkey |-> FirstName(u.tkey, tenant.key),
           password |-> u.password, profile |-> i]
    BY DEF LoadUser, tenant
  <2>4. u.id \in UserName /\ Prefixed(u.id) \in UserValue /\ Prefixed(u.id) # NoUser
    BY <2>1, NameAssumption DEF FileUser, UserValue, BareUser
  <2>5. LoadUser(u, i, tenants) \in LoadedUser /\ LoadUser(u, i, tenants).profile = i
    BY <2>1, <2>2, <2>3, <2>4 DEF FileUser, LoadedTenant, LoadedUser, FirstName, NameValue, TenantName
  <2> QED
    BY <2>5 DEF u
<1> HIDE DEF tenants, users
<1>4. users \in Seq(LoadedUser) /\ DOMAIN users = DOMAIN file.users
  BY <1>1, <1>3 DEF users
<1>5. Load(file) = [file EXCEPT !.tenants = tenants, !.users = users]
  BY DEF Load, tenants, users
<1>6. /\ Load(file).tenants = tenants /\ Load(file).users = users
      /\ Load(file).unknownUsers \in BOOLEAN /\ Load(file).unknownTenants \in BOOLEAN
  BY <1>1, <1>5
<1> QED
  BY <1>2, <1>3, <1>4, <1>6 DEF Loaded

-----------------------------------------------------------------------------
(* The inductive invariant: a code, and after it the token, is of the      *)
(* claims that were verified, and those are of an identity of the file.    *)

Vouched(claims) ==
  claims # NoClaims =>
    \E value \in UserValue, name \in NameValue : claims = ClaimsFor(config, value, name)

LocalInv ==
  /\ Loaded(config)
  /\ Vouched(verified)
  /\ code # NoCode => code = [user |-> verified.sub, tenant |-> verified.tenantId]
  /\ Exchanged => token = ClaimsFor(config, verified.sub, verified.tenantId)

LEMMA InitLocal == LocalInit => LocalInv
  BY LoadedFiles DEF LocalInit, LocalInv, Vouched, Exchanged

LEMMA StepLocal == LocalInv /\ [LocalNext]_localVars => LocalInv'
<1> SUFFICES ASSUME LocalInv, [LocalNext]_localVars PROVE LocalInv'
  OBVIOUS
<1>1. ASSUME NEW value \in UserValue, NEW name \in NameValue, NEW p \in Secret, Login(value, name, p)
      PROVE  LocalInv'
  <2> DEFINE user == UserFor(config, value, name)
             tenant == TenantOf(config, user, name)
  <2>1. user # Nobody /\ tenant # NoTenant
    BY <1>1 DEF Login, Admitted
  <2>2. verified' = ClaimsFor(config, value, name)
    BY <1>1, <2>1 DEF Login, ClaimsFor
  <2>3. config' = config /\ verified' = Claims(user, tenant) /\ code' = [user |-> user.key, tenant |-> tenant.id]
    BY <1>1 DEF Login
  <2> HIDE DEF user, tenant
  <2>4. code' = [user |-> verified'.sub, tenant |-> verified'.tenantId]
    BY <2>3 DEF Claims
  <2>5. code' # NoCode
    <3>1. user.key # NoUser
      <4>1. \/ \E i \in DOMAIN config.users : user = config.users[i]
            \/ user = UnknownUser(config, value, name)
        BY <2>1, UserForIs, KnownUserIs DEF LocalInv, user
      <4>2. \A i \in DOMAIN config.users : config.users[i].key # NoUser
        BY EntryType DEF LoadedUser, LocalInv
      <4>3. UnknownUser(config, value, name).key # NoUser
        BY UnknownUserIs, UnknownIdIs, NameAssumption DEF UserValue, BareUser
      <4> QED
        BY <4>1, <4>2, <4>3
    <3> QED
      BY <2>3, <3>1 DEF NoCode
  <2> QED
    BY <2>2, <2>3, <2>4, <2>5 DEF LocalInv, Vouched, Exchanged
<1>2. CASE Exchange
  BY <1>2 DEF Exchange, LocalInv, Vouched, Exchanged
<1>3. CASE UNCHANGED localVars
  BY <1>3 DEF localVars, LocalInv, Vouched, Exchanged
<1> QED
  BY <1>1, <1>2, <1>3 DEF LocalNext, RefuseLogin

LEMMA LocalInvariant == LocalSpec => []LocalInv
  BY InitLocal, StepLocal, PTL DEF LocalSpec

\* The token is about the user whose password was compared, whatever the file,
\* if none of its keys stands for somebody else (server.py:541-556, 640-646).
THEOREM SubjectsAreKept == LocalSpec => []SubjectKept
<1>1. LocalInv => SubjectKept
  <2> SUFFICES ASSUME LocalInv, KeysApart(config), Exchanged, token # NoClaims
               PROVE  token.sub = verified.sub
    BY DEF SubjectKept
  <2>1. Loaded(config) /\ verified # NoClaims /\ token = ClaimsFor(config, verified.sub, verified.tenantId)
    BY DEF LocalInv, Exchanged
  <2>2. PICK value \in UserValue, name \in NameValue : verified = ClaimsFor(config, value, name)
    BY <2>1 DEF LocalInv, Vouched
  <2> DEFINE user == UserFor(config, value, name)
  <2>3. user # Nobody /\ verified.sub = user.key
    BY <2>1, <2>2, ClaimsForIs DEF Claims
  <2>4. \/ \E i \in DOMAIN config.users : user = config.users[i]
        \/ user = UnknownUser(config, value, name)
    BY <2>1, <2>3, UserForIs, KnownUserIs
  <2>5. \E u \in BareUser : UnknownUser(config, value, name).key = Prefixed(u)
    BY UnknownUserIs, UnknownIdIs DEF UserValue, BareUser
  <2> HIDE DEF user
  <2> QED
    BY <2>1, <2>3, <2>4, <2>5, SubjectFound
<1> QED
  BY <1>1, LocalInvariant, PTL

\* With a consistent file the token is the verified identity, tenant and profile
\* included, and the exchange does not fail (same lines).
THEOREM IdentitiesAreKept == LocalSpec => []IdentityKept
<1>1. LocalInv => IdentityKept
  BY ClaimsFoundAgain DEF LocalInv, Vouched, Exchanged, IdentityKept
<1> QED
  BY <1>1, LocalInvariant, PTL

\* A strict file admits and vouches for nobody who is not in it, through any
\* endpoint (config.py:139-182).
THEOREM StrictFilesAreClosed == LocalSpec => []StrictIsClosed
<1>1. LocalInv => StrictIsClosed
  BY StrictKnows DEF LocalInv, StrictIsClosed
<1> QED
  BY <1>1, LocalInvariant, PTL

\* In a consistent file a user goes with the tenant of the entry, however the
\* tenant is named (config.py:154-169).
THEOREM EntriesKeepTheirTenant == LocalSpec => []TenantIsTheEntrys
<1>1. LocalInv => TenantIsTheEntrys
  BY EntryGoesWithTenant DEF LocalInv, TenantIsTheEntrys
<1> QED
  BY <1>1, LocalInvariant, PTL

\* The contract check passes for every identity of a consistent file, and the
\* tokens for FastReAct and for PSKA are about one entry (contract.py:26-81).
THEOREM OneIdentityInBothServices == LocalSpec => []OneIdentityForBoth
<1>1. LocalInv => OneIdentityForBoth
  BY ClaimsFoundAgain, ContractIsMet DEF LocalInv, OneIdentityForBoth
<1> QED
  BY <1>1, LocalInvariant, PTL

=============================================================================
