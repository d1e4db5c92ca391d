\* The router and one node over a lossy network. The run may end with the
\* node and the router idle after completion, so deadlock is not checked.
CONSTANTS
    s1 = s1
    Session <- MCSession
    NoSession = NoSession
    FragCount = 2
    FragBytes = 2
    TotalBytes = 3
    SliceBytes = 3
    ByteBits = 2
    SegBytes = 1
    MaxRestarts = 0
    Disciplined = TRUE
SPECIFICATION SysSpec
VIEW SysView
PROPERTIES
    NodeDownloadTerminates
CHECK_DEADLOCK FALSE
