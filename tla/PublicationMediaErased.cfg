SPECIFICATION Spec
CONSTANTS
    b1 = b1
    b2 = b2
    b3 = b3
    r1 = r1
    i1 = i1
    i2 = i2
    k1 = k1
    k2 = k2
    Replicas = {p1, p2}
    Primary = p1
    Runs = {r1}
    Bindings = {b1, b2, b3}
    RunOf <- MCRunOf
    ImageOf <- MCImageOf
    Keys = {key1, key2}
    Rings <- MCRings
    None = None
    Ttl = 1
    MaxClock = 1
    MaxCrashes = 1
PROPERTIES AttachmentsLastUntilDecision
SYMMETRY MCSymmetry
