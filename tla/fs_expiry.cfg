SPECIFICATION Spec
CONSTANTS
  a = a
  b = b
  s = s
  t = t
  Op = {a, b}
  Target = {s, t}
  Nobody = Nobody
  Plans <- RacePlans
  TombMax = 1
INVARIANT ExpiryIsHarmless
CHECK_DEADLOCK FALSE
