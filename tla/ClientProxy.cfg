SPECIFICATION FairSpec
CONSTANTS
  Endpoint = {e1, e2}
  MaxIds = 3
INVARIANTS
  TypeOK
  NoExpiryWhileAdvertising
  HighVisEnds
  AdvertisedIdKept
PROPERTIES
  CacheKept
  CacheExpires
CHECK_DEADLOCK FALSE
