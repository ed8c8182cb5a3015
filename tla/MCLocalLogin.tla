---------------------------- MODULE MCLocalLogin ----------------------------
(* TLC instances of LocalLogin. *)
EXTENDS LocalLogin, TLC

CONSTANTS own, shared, a, b, aKey

Tenants(names) == [id : names, key : names]

\* The first entry has a key with the prefix and a password of its own, the second
\* the shared password and perhaps the first one's id for a key.
Entry(keys, names, tenantKeys, password) ==
  [id : UserName, key : keys, tid : names \cup {NoName}, tkey : tenantKeys \cup {NoName},
   password : {password}]

\* Of two entries one has an id and perhaps a tenant id only.
Entries(names) ==
  LET Keyed == UserValue \ UserName
      Pairs(First, Second) == {<<u, v>> : u \in First, v \in Second}
  IN {<<>>} \cup {<<u>> : u \in Entry(Keyed, names, names, own)}
       \cup Pairs(Entry({NoUser}, names, {}, own), Entry(UserValue, names, names, NoSecret))
       \cup Pairs(Entry(Keyed, names, names, own), Entry({NoUser}, names, {}, NoSecret))

Files(tenants, names) ==
  [tenants : tenants, users : Entries(names), devPassword : {shared},
   unknownUsers : BOOLEAN, unknownTenants : BOOLEAN]

\* Every list of at most two tenants whose ids and keys are of the two names, so
\* that they coincide in every way (but for the names' order); two users with
\* both policies or neither ...
SmallFiles ==
  {f \in Files(SeqOf(Tenants({a, b}), 2), {a, b}) :
     /\ f.tenants # <<>> => f.tenants[1].id = a
     /\ Len(f.users) = 2 => f.unknownUsers = f.unknownTenants}

\* ... and two tenants, one of which has a key that is not its id, with users that
\* agree with the list and users that do not.
KeyedFiles ==
  {f \in Files({<<[id |-> a, key |-> aKey], [id |-> b, key |-> NoName]>>}, Name) :
     /\ f.unknownUsers = f.unknownTenants
     /\ \A i \in DOMAIN f.users : f.users[i].key = NoUser}

BothFiles == SmallFiles \cup KeyedFiles

Symmetry == Permutations(UserName)

=============================================================================
