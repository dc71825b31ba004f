SPECIFICATION FairSpec
CONSTANTS
    a = a
    b = b
    Pages = {a, b}
    MaxJoins = 3
    MaxToggles = 2
CHECK_DEADLOCK FALSE
INVARIANTS TypeOK SettledMedia AnswersMatch OneImpolite
PROPERTIES ImpolitePrevails ImpoliteIsHeard
