SPECIFICATION WifiSpec
CONSTANTS
  MaxPosts = 1
  MaxFaults = 2
PROPERTY OutageIsRetried
