CONSTANTS
  Request = {r1, r2}
  OidcState = {s1, s2}
  Account = {known, stranger}
  Accepted = {known}
  Target = {pska, fastreact}
  Key = {k1, k2}
  FirstKey = k1
  StateTTL = 1
  NoState = NoState
  NoToken = NoToken
  NoTarget = NoTarget
SPECIFICATION OidcSpec
SYMMETRY Symmetry
INVARIANTS
  OidcTypeOK
  LoginsMatch
  KeyFound
PROPERTY
  StatesAreTickets
