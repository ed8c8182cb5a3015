\* Two tenants and one user, every history of up to five audit rows.
CONSTANTS
  alice = alice  acme = acme  globex = globex  acmeKey = acmeKey
  good = good  weak = weak  admin = admin
  User = {alice}
  Tenant = {acme, globex}
  Password = {good, weak}
  ShortPassword = {weak}
  NoPassword = NoPassword
  SeedTenants <- SeededTenants
  SeedMembers <- SeededMembers
  SeedPassword <- SeededPassword
  TenantName = {acme, globex, acmeKey}
  NoKey = NoKey
  Label = {admin}
  Account = {google}
  NoOwner = NoOwner
  SeedKey <- SeededKey
  SeedLabels <- SeededLabels
  MaxAudit = 5
SPECIFICATION CatalogSpec
INVARIANTS
  CatalogTypeOK
  Referential
  AuditReplays
  LabelsExplained
  LookupUnambiguous
