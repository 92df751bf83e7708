SPECIFICATION FairSpec
CONSTANTS
    Keys = {1, 2, 3, 4, 5, 6, 7, 8}
    Copies = {1}
    NoData = none
INVARIANTS
    SearchTree
    RedBlack
    NeighboursAreNearest
PROPERTIES
    ImplementsDictionary
    CallsEnd
