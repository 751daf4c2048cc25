SPECIFICATION Spec
CONSTANTS
    Runs = 3
    Overlap = TRUE
    Redis = TRUE
    Postgres = TRUE
INVARIANTS
    NewestRunIsActive
    NoGhostIsActive
    EarlierCancelSparesRun
    MessageAnswersOpenQuestion
