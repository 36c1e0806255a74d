CONSTANTS
    c1 = c1
    c2 = c2
    None = None
    Contents <- MCContents
    MaxVersion = 3
    MaxRestores = 0
    MaxHeld = 2
SPECIFICATION Spec
INVARIANT NextAuditPossible
SYMMETRY Symmetry
