SPECIFICATION FairSpec
CONSTANTS
    Memories <- AllMemories
    Ports = {1, 2}
PROPERTY WalkEnds
CHECK_DEADLOCK FALSE
