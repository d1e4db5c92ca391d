\* A cloud that writes a command only while READY is "1" (Disciplined),
\* any command, any session, at any such time.
CONSTANTS
    s1 = s1
    s2 = s2
    Session <- MCSession
    NoSession = NoSession
    FragCount = 2
    FragBytes = 2
    TotalBytes = 3
    SliceBytes = 2
    ByteBits = 2
    SegBytes = 1
    MaxRestarts = 0
    Disciplined = TRUE
SYMMETRY MCSymmetry
SPECIFICATION RSpec
INVARIANTS
    RTypeOK
    DeliveringKeepsSession
