\* Two terminals, two processes at once, two generated secrets.
CONSTANTS
  t1 = t1  t2 = t2
  Script = {t1, t2}
  CommandsOf <- TwoTerminals
  Pid = {p1, p2}
  Secret = {k1, k2}
  Placeholder = Placeholder
  NoSecret = NoSecret
  NoPid = NoPid
SPECIFICATION AloneSpec
INVARIANTS
  LauncherTypeOK
  DaemonFound
  StopStops
  SecretAgreement
PROPERTY
  ComesBack
