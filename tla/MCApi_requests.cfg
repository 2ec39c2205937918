SPECIFICATION ApiSpec
CONSTANTS
 LastRelease = 2
 Downloads = {d1, d2}
 ImageSize = 2
 MaxFailures = 1
 MaxDevices = 2
 MaxKeys = 2
 MaxBcFailures = 1
 Scanners = {s1, s2}
 Found = {2}
 MaxScans = 1
 MaxNlFailures = 1
 UpdaterRouted = TRUE
 MaxRequests = 3
SYMMETRY Symmetry
INVARIANT ApiTypeOK
INVARIANT CheckIsStored
INVARIANT VerifiedDownload
INVARIANT ConfiguredKeyIsKnown
INVARIANT ListIsOneScan
