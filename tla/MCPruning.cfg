\* Every block is eventually in every view and then nothing more can happen.
CHECK_DEADLOCK FALSE
SPECIFICATION PruneSpec
CONSTANTS
    v1 = v1
    v2 = v2
    v3 = v3
    v4 = v4
    Pruned = n1
    Reference = n2
    Node = {n1, n2}
    MaxRound = 8
    F = 1
    Rule = {"native", "weighted"}
    Wavelength = 3
    HashSeed = 10
    Validator <- MCValidator
    Honest <- MCHonest
    Block <- MCBlock
    Creator <- MCCreator
    Preds <- MCPreds
    Seqno <- MCSeqno
    Stake <- MCStake
    Leader <- MCLeader
    Rank <- MCRank
INVARIANTS
    TauSound
    
    
PROPERTY
    OutputExtends
