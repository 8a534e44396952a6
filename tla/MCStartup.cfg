SPECIFICATION Spec
CONSTANTS
    Environments <- TheEnvironments
    Questions <- TheQuestions
    Requests = {r1, r2}
    MaxBoots = 2
    MaxTokens = 1
CHECK_DEADLOCK FALSE
INVARIANTS NoDevelopmentDefaults TokensVerify HonestMetadata CorsIsNarrow BannerDecides
