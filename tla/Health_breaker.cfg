CONSTANTS
  Workers = {w1, w2, w3, w4}
  Threshold = 3
  BaseCooldown = 1
  MaxCooldown = 4
SPECIFICATION HealthFairSpec
INVARIANTS OpenMeansBlocked OvershootBounded
PROPERTIES CooldownNeverShortened Recovers
