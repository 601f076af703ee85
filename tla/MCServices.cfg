CONSTANTS
    t1 = t1
    t2 = t2
    Nobody = Nobody
    Stranger = Stranger
    f1 = f1
    f2 = f2
    d1 = d1
    d2 = d2
SPECIFICATION Spec
CHECK_DEADLOCK FALSE
INVARIANTS
    SourceOrCopy
    NothingNeededGoes
PROPERTIES
    CancelEnds
    DerivativesEnd
    ItemsEnd
