SPECIFICATION FairSpec
CONSTANTS
    N = 3
    Configs <- Recipes
INVARIANTS TypeOK WindowSound RaceGuarded
PROPERTIES EvidenceSurvives NothingStartsAfterStop InterruptSettles BudgetsSettle
CHECK_DEADLOCK FALSE
