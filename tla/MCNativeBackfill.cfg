\* The runner polls for ever.
SPECIFICATION FairSpec
CONSTANTS
    Block <- MCBlock
    Height <- MCHeight
    Deps <- MCDeps
    Hash <- MCHash
    Body <- MCBody
    Late <- MCLate
    BatchHeights = 2
    ReplayHeights = 2
    MaxBackfill = 1
    MaxCrashes = 2
INVARIANTS
    CursorCovers
PROPERTY
    RecentEventuallyStored
