SPECIFICATION Spec
CONSTANTS
    n1 = n1
    n2 = n2
    k1 = k1
    k2 = k2
    Points <- MCPoints
    NoPoint = NoPoint
    Presentations <- MCPresentations
    Retention = 4
    MaxSkew = 1
    MaxDelay = 1
    MaxTime = 6
SYMMETRY MCSymmetry
INVARIANTS SingleUseInWindow PresentationOnce
