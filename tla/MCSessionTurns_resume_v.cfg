SPECIFICATION Spec
CONSTANTS
    Runs = 2
    Overlap = FALSE
    Redis = FALSE
    Postgres = FALSE
PROPERTY ResumesOnlyInterrupt
