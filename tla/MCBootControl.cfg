SPECIFICATION Spec
CONSTANTS
  DEFAULT_BOOT_ATTEMPTS = 2
  MaxEpoch = 2
INVARIANTS LastSaveWins  RunsWhatWasChosen 
  
