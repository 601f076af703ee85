CONSTANTS
    f1 = f1
    f2 = f2
    f3 = f3
    album = album
    job = job
    chat = chat
    user = user
    Tasks = {f1, f2}
    Groups = {album}
    GroupOf <- MCGroupOf
    Hidden = {}
    Scopes = {chat, user}
    ScopeGroups <- MCScopeGroups
    Limits = {1}
    InitialLimit = 1
    Expected = {1}
    MaxUploads = 1
    MaxHistory = 2
    MaxGroups = 1
    RetryLimit = 2
    MaxRetries = 1
SPECIFICATION LiveSpec
CHECK_DEADLOCK FALSE
INVARIANTS
    TypeOK
    CountedOnce
    ExpectedCoversFiles
PROPERTIES
    EndsForGood
    ScopePauseIsComplete
    DrainingEnds
    FilesEnd
