SPECIFICATION FileSpec
CONSTANTS
 Chars <- MCChars
 Tree <- MCTree
 Docroot <- MCDocroot
 IndexFile <- MCIndexFile
 Doc <- MCDoc
 Escapes <- MCEscapes
 Urls <- MCUrls
 DocUrl <- MCDocUrl
 MaxFiles = 2
 MaxEdits = 2
 MaxSize = 2
 MaxReadErrors = 1
 Backdates = {1}
CHECK_DEADLOCK FALSE
INVARIANT FileTypeOK
INVARIANT AnswerIsTheFile
INVARIANT NotModifiedMeansSame
PROPERTY EveryRequestEnds
