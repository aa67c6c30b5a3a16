SPECIFICATION FairSpec
CONSTANTS
  a = a
  b = b
  s = s
  t = t
  Op = {a, b}
  Target = {s, t}
  Nobody = Nobody
  Plans <- MCPlans
  TombMax = 1
INVARIANTS
  TypeOK VerdictsAreTrue TombstoneHolds EverythingOwned
PROPERTIES
  NoLostUpdate EventuallyQuiet
CHECK_DEADLOCK FALSE
