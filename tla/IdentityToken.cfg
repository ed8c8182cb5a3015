\* Clocks in half seconds, up to seven seconds apart.
CONSTANTS
  Target = {fastreact, pska, other}
  DefaultAudience = {fastreact, pska}
  DefaultTTL = 2
  TTL <- SomeTTL
  Grain = 2
  MaxSkew = 14
  Horizon = 16
  NoToken = NoToken
SPECIFICATION TokenSpec
INVARIANTS
  AudienceSeparated
  FreshIsAccepted
  DiesOnTime
