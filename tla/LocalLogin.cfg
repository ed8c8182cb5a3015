\* Two users; two tenants, whose keys are their ids, each other's ids or, of one, neither.
CONSTANTS
  a = a  b = b  aKey = aKey
  UserName = {u, v}
  Name = {a, b, aKey}
  own = own
  shared = shared
  Secret = {own, shared}
  NoUser = NoUser
  NoName = NoName
  NoSecret = NoSecret
  DefaultUser = DefaultUser
  DefaultTenant = DefaultTenant
  File <- BothFiles
SPECIFICATION LocalSpec
SYMMETRY Symmetry
INVARIANTS
  SubjectKept
  StrictIsClosed
  IdentityKept
  TenantIsTheEntrys
  OneIdentityForBoth
