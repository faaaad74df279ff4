CONSTANTS
    MinPrice = 1
    MaxPrice = 3
    Quotes = {2}
    N = 2
    Step = 1
    MinQty = 1
    MaxQty = 2
    RealBooks <- MCRealBooks
    Targets = {0, 1, 2, 3, 4, 5}
SPECIFICATION Spec
INVARIANTS
    TypeOK
    ReturnsFill
    PartialMeansThin
    BestPrice
CHECK_DEADLOCK FALSE
