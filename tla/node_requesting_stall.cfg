CONSTANTS
    s1 = s1
    s2 = s2
    Session <- MCSession
    NoSession = NoSession
    FragCount = 3
    FragBytes = 2
    TotalBytes = 5
    SliceBytes = 3
    ByteBits = 2
    SegBytes = 1
    MaxRestarts = 1
SYMMETRY MCSymmetry
SPECIFICATION Spec
INVARIANT
    RequestingArmed
