SPECIFICATION WifiSpec
CONSTANTS
  MaxPosts = 1
  MaxFaults = 2
INVARIANT WifiTypeOK
INVARIANT OffIsRemembered
PROPERTY EventuallyRecovers
