SPECIFICATION Spec
CONSTANTS
  Operators = {ann, bob}
  Entries = {robe}
  mage = mage
  rogue = rogue
  every = every
  Masks <- ThreeMasks
  Gone = Gone
  MaxChanges = 2
INVARIANTS TypeOK PromotedWasApplied
PROPERTIES DecidedOnce NothingUnreviewedOverwritten
