CONSTANTS
    Validator <- N
    Key <- Keys
    View <- Views
    Window <- Blocks
    Creator <- Creators
    Configs <- Settings
SPECIFICATION FairSpec
INVARIANTS PublishedFromOutbox ClosedAgree ClosedIsEvidence
PROPERTIES RoundCloses ImplementsRound
CHECK_DEADLOCK FALSE
