CONSTANTS
    ann = ann
    bob = bob
    c1 = c1
    c2 = c2
    n1 = n1
    n2 = n2
    None = None
    Subs <- MCSubs
    Callers <- MCCallers
    Names <- MCNames
    MaxWrites = 4
SPECIFICATION Spec
INVARIANT RingAlive
PROPERTY
    ErasedStays
