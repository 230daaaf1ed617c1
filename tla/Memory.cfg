SPECIFICATION PTSpec
CONSTANTS
    Pages = 7
    Sizes = {1, 2, 4}
    Fan = 2
    Top = 2
    MaxVpn = 5
    MaxBlocks = 2
CHECK_DEADLOCK FALSE
INVARIANTS
    BlocksDisjoint
    NoPageLost
    AssertionsHold
    TransExact
    NodesExact
