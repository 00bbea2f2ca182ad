SPECIFICATION Spec
CONSTANTS
    Replies <- MCReplies
    Ended <- MCEnded
    Manifest <- MCManifest
    OldShards <- MCOldShards
    OldCensor <- MCOldCensor
    Scopes <- MCScopes
    Bases = {1}
    MaxFaults = 1
    MaxShards = 3
INVARIANT OnlyFaultsAbort
