SPECIFICATION Spec
CONSTANTS
  MaxKeys = 6
  MaxMishaps = 2
  CodesOnce = TRUE
  None = None
INVARIANTS
  PublishedKeyAtHand
  SavedIsPublished
  RegisteredCanDecrypt
  HeardUntilRotation
PROPERTIES
  IdentityReplacedKnowingly
CHECK_DEADLOCK FALSE
