SPECIFICATION FanoutFairSpec
CONSTANTS
  Services <- MCServices
  Events <- MCEvents
  Type <- MCType
  MaxCopies = 1
  MaxFaults = 2
INVARIANTS CopiesAccounted EffectsJustified
PROPERTY QueuesDrain
