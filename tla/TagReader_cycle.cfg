SPECIFICATION FairSpec
CONSTANTS
  Tags = {t1}
  none = none
  reader = reader
  loop = loop
  MaxRequests = 1
  MaxFaults = 1
INVARIANT TypeOK
INVARIANT FreshWhileAlone
INVARIANT OnlyTagRequestsMixTags
PROPERTY RequestReturns
PROPERTY TagIsPosted
