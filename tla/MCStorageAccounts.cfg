CONSTANTS
    a1 = a1
    a2 = a2
    o1 = o1
    o2 = o2
    l1 = l1
    l2 = l2
    Accounts = {a1, a2}
    Local = Local
    Uploads = {o1, o2}
    Loads = {l1}
    Nobody = Nobody
    MaxFaults = 1
SPECIFICATION Spec
SYMMETRY Symmetry
INVARIANTS
    TypeOK
    NeededAccountStays
    ConfiguredTargetExists
PROPERTY
    DeletedAsConfirmed
