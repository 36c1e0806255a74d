CONSTANTS
    c1 = c1
    c2 = c2
    None = None
    Callers <- MCCallers
    Docs <- AllDocs
    Handles <- MCHandles
    MaxMistakes = 3
    MaxRestarts = 1
SPECIFICATION Spec
PROPERTY KeepsServing
