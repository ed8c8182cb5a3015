\* Two tenants, both in the file, and a user of the file.
CONSTANTS
  alice = alice  a = a  b = b  aKey = aKey  bKey = bKey
  User = {alice}
  Tenant = {a, b}
  Password = {}
  ShortPassword = {}
  NoPassword = NoPassword
  SeedTenants <- SeededAB
  SeedMembers <- SeededMember
  SeedPassword <- NoPasswords
  Config <- FullConfig
  TenantKey <- KeyOf
  NoName = NoName
  NoUser = NoUser
  NoSecret = NoSecret
  DefaultUser = DefaultUser
  DefaultTenant = DefaultTenant
  Target <- Targets
  NoAsk = NoAsk
  NoAnswer = NoAnswer
  Inbound <- FewFields
SPECIFICATION GatewaySpec
INVARIANT FromMembership
