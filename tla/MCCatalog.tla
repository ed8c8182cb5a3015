----------------------------- MODULE MCCatalog ------------------------------
(* TLC instances of Catalog. *)
EXTENDS Catalog, TLC

CONSTANTS alice, acme, globex, acmeKey, good, weak, admin

\* The configuration file: tenant acme with a key of its own, and alice, an
\* admin of it.
SeededTenants == {acme}
SeededMembers == {<<alice, acme>>}
SeededKey == [t \in SeedTenants |-> acmeKey]
SeededLabels == [id \in SeedMembers |-> {admin}]
SeededPassword == [u \in User |-> good]

=============================================================================
