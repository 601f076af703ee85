CONSTANTS
    a1 = a1
    a2 = a2
    o1 = o1
    o2 = o2
    l1 = l1
    l2 = l2
    Accounts = {a1}
    Local = Local
    Uploads = {o1}
    Loads = {l1, l2}
    Nobody = Nobody
    MaxFaults = 0
SPECIFICATION Spec
INVARIANT ActiveTargetExists
