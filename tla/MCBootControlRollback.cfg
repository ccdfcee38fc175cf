SPECIFICATION Spec
CONSTANTS
  DEFAULT_BOOT_ATTEMPTS = 3
  MaxEpoch = 9

PROPERTY RollsBackToStable
