\* Two task threads with two messages each, one owner.
CONSTANTS
    Callers = {c1, c2}
    MaxSends = 2
SPECIFICATION FairSpec
INVARIANTS TypeOK NothingDropped
PROPERTIES AnsweredUnlessStranded DestructorEnds
CHECK_DEADLOCK FALSE
