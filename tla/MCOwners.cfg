CONSTANTS
    ann = ann
    bob = bob
    o1 = o1
    o2 = o2
    t1 = t1
    t2 = t2
    t3 = t3
    k1 = k1
    k2 = k2
    None = None
    Subs <- MCSubs
    Objects <- MCObjects
    ClassOf <- MCClassOf
    Tasks <- MCTasks
    Keys <- MCKeys
    Class <- MCClass
    Wf <- MCWf
    Policy <- MCPolicy
    Seed <- MCSeed
    MaxTime = 1
    MaxVersions = 3
SPECIFICATION Spec
INVARIANTS
    IndexExact
    HeadCurrent
    Readable
    DeadKeysForgotten
    ClosedProposalsSealed
PROPERTIES
    TerminalForever
    ErasedForever
    Governed
