CONSTANTS
    c1 = c1
    c2 = c2
    q1 = q1
    q2 = q2
    r1 = r1
    r2 = r2
    a = a
    b = b
    None = None
    NoWrite = NoWrite
    Callers <- MCCallers
    Requests <- MCRequests
    Rows <- MCRows
    Values <- MCValues
    Writes <- MCWrites
    MaxTime = 1
    MaxVersion = 4
    MaxAnchors = 2
SPECIFICATION AuditSpec
INVARIANT NotShorterThanSigned
