SPECIFICATION FairSpec
CONSTANTS
    TIMEOUT = 10
    MaxCall = 2
    MaxStartup = 3
    MaxFaults = 1
INVARIANTS
    TypeOK
    NotPruned
    RepliesAreOwn
    PublishIsPrompt
PROPERTIES
    PublishComesBack
