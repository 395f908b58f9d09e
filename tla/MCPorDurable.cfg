\* Storage errors and kills, or power failures.
SPECIFICATION FairSpec
CONSTANTS
    Outcome <- MCOutcome
    Projection <- MCProjection
    Genesis = "genesis"
    Stake = "stake"
    Paths <- MCPaths
    SourceWave <- MCRounds
    SourceAt <- MCSourceAt
    Delay = 2
    Refused <- MCRefused
    Mixed = FALSE
    MaxRound = 2
    MaxOutput = 3
    MaxFaults = 1
    MaxCrashes = 1
    MaxPower = 2
INVARIANTS
    ReopenSucceeds
    CommittedRoundSurvives
    WeightsAreRecorded
    EpochSealsOldWeights
PROPERTY
    CommittedEventuallyActive
