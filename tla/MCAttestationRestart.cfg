CONSTANTS
    v1 = v1
    v2 = v2
    v3 = v3
    Validator <- MCValidator
    Key <- MCKey
    Configs <- RestartConfigs
    scale = 10
    liquid_rank_alpha = 8
    initial_reputation = 5
    minimum_rating = 0
    maximum_rating = 10
    correlation_threshold = 4
    base_slash_penalty = 5

SPECIFICATION Spec
CHECK_DEADLOCK FALSE
INVARIANT HonestNeverDiverge
