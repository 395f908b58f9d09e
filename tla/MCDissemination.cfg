\* Everything is delivered in the end.
CHECK_DEADLOCK FALSE
SPECIFICATION FairSpec
CONSTANTS
    Block <- MCBlock
    Creator <- MCCreator
    Content <- MCContent
    Preds <- MCPreds
    Key <- MCKey
    Forged = {9}
    Configs <- MCConfigs
INVARIANTS
    ViewSound
    
    CandidateCordial
    ForkChoiceSound
PROPERTIES
    HonestBlocksArrive
