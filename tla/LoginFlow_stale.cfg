CONSTANTS
  alice = alice  acme = acme
  typed = typed
  good = good  fresh = fresh
  User = {alice}
  Tenant = {acme}
  Password = {good, fresh}
  ShortPassword = {}
  NoPassword = NoPassword
  SeedTenants <- OneTenant
  SeedMembers <- AliceOfAcme
  SeedPassword <- GoodPassword
  Request = {r1, r2}
  Login = {typed}
  IdentityOf <- AliceOnly
  Target = {pska}
  Session = {s1}
  Code = {c1}
  MaxAttempts = 1
  Window = 1
  SessionTTL = 2
  CodeTTL = 1
  NoAsk = NoAsk
  NoIdentity = NoIdentity
  NoSession = NoSession
  NoCode = NoCode
  NoTarget = NoTarget
  NoPayload = NoPayload
SPECIFICATION FlowSpec
PROPERTY
  TokenOnlyWhileActive
