SPECIFICATION FairSpec
CONSTANTS
    Filters = {own, group}
    Codes = {granted, refused}
    NoAnswer = noAnswer
    MaxConns = 2
INVARIANTS
    AnswersAreCurrent
PROPERTIES
    UpIsAnnounced
