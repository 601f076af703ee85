CONSTANTS
    f1 = f1
    f2 = f2
    f3 = f3
    album = album
    job = job
    chat = chat
    user = user
    Tasks = {f1, f2, f3}
    Groups = {album, job}
    GroupOf <- MCGroupOf
    Hidden = {job}
    Scopes = {}
    ScopeGroups <- MCScopeGroups
    Limits = {1, 2}
    InitialLimit = 1
    Expected = {0}
    MaxUploads = 1
    MaxHistory = 2
    MaxGroups = 1
    RetryLimit = 2
    MaxRetries = 0
SPECIFICATION Spec
SYMMETRY Symmetry
CHECK_DEADLOCK FALSE
INVARIANTS
    OverridesMatchFiles
    LiveFilesHaveGroup
    NoRunnableFileWaits
    UploadSlots
PROPERTIES
    StartsRespectControls
    ServedInOrder
