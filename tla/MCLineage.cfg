CONSTANTS
    c1 = c1
    c2 = c2
    None = None
    Contents <- MCContents
    MaxVersion = 3
    MaxRestores = 1
    MaxHeld = 2
SPECIFICATION Spec
INVARIANTS
    ChainLinked
    EvidenceAnchored
    ForksCaught
SYMMETRY Symmetry
