SPECIFICATION FairSpec
CONSTANTS
  Ttl = 2
  Unknown = Unknown
  None = None
PROPERTIES MotionLastsItsTime DisplaySettles
