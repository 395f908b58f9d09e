SPECIFICATION Spec
CONSTANTS
    v1 = v1
    v2 = v2
    x = x
    a1 = a1
    Proposer <- MCProposer
    Equivocator = x
    Deploy <- MCDeploy
    ForkDeploys <- MCForkDeploys
    Auth <- MCAuth
    Hash <- MCHash
    MaxBlocks = 6
    Configs <- MCConfigs
INVARIANTS
    NoRepeatedDeploy
    SlashSticks
    BondsOfNewestBlock
PROPERTY
    AuthorizationsSurvive
