CONSTANTS
    ann = ann
    bob = bob
    v1 = v1
    v2 = v2
    v3 = v3
    p1 = p1
    p2 = p2
    p3 = p3
    w1 = w1
    w2 = w2
    w3 = w3
    l1 = l1
    t1 = t1
    t2 = t2
    t3 = t3
    k1 = k1
    k2 = k2
    k3 = k3
    None = None
    Subs <- MCSubs
    Objects <- MCObjects
    ClassOf <- MCClassOf
    Tasks <- MCTasks
    Keys <- MCKeys
    Class <- MCClass
    Wf <- MCWf
    Policy <- MCPolicy
    Seed <- MCSeed
    SingleLinks <- MCSingleLinks
    Severances <- MCSeverances
    Carriages <- MCCarriages
    MaxTime = 0
    MaxVersions = 3
SPECIFICATION Spec
INVARIANTS
    ReferencesResolve
    LinksSingle
    LinksSevered
    LinksCarried
    DutiesSeparate
PROPERTIES
    ConditionsMet
