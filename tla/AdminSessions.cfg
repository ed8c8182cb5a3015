\* Three requests and two sessions; a session lives for two ticks.
CONSTANTS
  Request = {r1, r2, r3}
  Token = {t1, t2}
  SessionTTL = 2
  NoToken = NoToken
SPECIFICATION TimedSpec
INVARIANTS
  AdminTypeOK
  NoUnrecordedAdmin
PROPERTY
  AdminSessionsAreLeases
  SessionsEnd
