SPECIFICATION Spec
CONSTANTS
  r1 = r1
  r2 = r2
  cron = cron
  hand = hand
  s1 = s1
  s2 = s2
  Rotators = {r1, r2}
  KeyLimit = 2
  MaxKey = 3
  GcpLimit = 1
  Runners = {cron, hand}
  Secrets = {s1, s2}
  RotationDays = 3
  Period = 2
  MaxDay = 7
SYMMETRY Symmetry
INVARIANT TypeOK
INVARIANT NeverKeyless
INVARIANT SecretAgeBounded
\* Every key may have been created and every day gone by.
CHECK_DEADLOCK FALSE
