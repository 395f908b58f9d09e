\* Every block is eventually in every view and then nothing more can happen.
CHECK_DEADLOCK FALSE
SPECIFICATION LaceSpec
CONSTANTS
    v1 = v1
    v2 = v2
    v3 = v3
    v4 = v4
    Node = {n1}
    MaxRound = 5
    F = 1
    Rule = {"native", "weighted"}
    Wavelength = 3
    HashSeed = 10
    Validator <- MCValidator
    Honest <- MCValidator
    Block <- MCBlock
    Creator <- MCCreator
    Preds <- MCPreds
    Seqno <- MCSeqno
    Stake <- MCStake
    Leader <- MCLeader
    Rank <- MCRank
PROPERTY
    TauMonotone
