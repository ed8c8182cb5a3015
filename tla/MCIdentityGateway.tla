-------------------------- MODULE MCIdentityGateway -------------------------
(* TLC instances of IdentityGateway. *)
EXTENDS IdentityGateway, FiniteSetsExt, TLC

CONSTANTS alice, a, b, aKey, bKey

KeyOf == [t \in Tenant |-> IF t = a THEN aKey ELSE bKey]

NoPasswords == [x \in User |-> NoPassword]

\* A configuration with the given users, in tenant a, and tenants.
Configuration(entries, tenantEntries) ==
  [tenants |-> tenantEntries,
   users |-> [i \in DOMAIN entries |->
     [id |-> entries[i], key |-> <<"pska", entries[i]>>, tid |-> a, tkey |-> aKey,
      password |-> NoSecret, profile |-> i]],
   devPassword |-> NoSecret, unknownUsers |-> FALSE, unknownTenants |-> TRUE]

ListedA == [id |-> a, key |-> aKey]
ListedB == [id |-> b, key |-> bKey]

\* Every tenant of the catalog is in the file.
FullConfig == Configuration(<<alice>>, <<ListedA, ListedB>>)

SeededAB == {a, b}
SeededMember == {<<alice, a>>}

Targets == {"fastreact", "pska", "other"}

FewFields == {{h} : h \in Field} \cup {{}}

=============================================================================
