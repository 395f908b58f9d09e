\* Every block is eventually mirrored and every poll then finds it unchanged.
CHECK_DEADLOCK FALSE
SPECIFICATION LiveSpec
CONSTANTS
    v1 = v1
    v2 = v2
    v3 = v3
    v4 = v4
    Node = {n1}
    MaxRound = 5
    F = 1
    Rule = {"weighted"}
    Wavelength = 3
    HashSeed = 10
    MaxPending = 1
    CheckpointLen = 1
    DelayWaves = 1
    Recovered <- MCRecovered
    PorStake <- MCPorStake
    Carriers <- MCCarriers
    Validator <- MCValidator
    Honest <- MCValidator
    Block <- MCBlock
    Creator <- MCCreator
    Preds <- MCPreds
    Seqno <- MCSeqno
    Stake <- MCStake
    Leader <- MCLeader
    Rank <- MCRank
INVARIANTS
    ExtensionIsRecomputation
    
PROPERTY
    TraceSound
