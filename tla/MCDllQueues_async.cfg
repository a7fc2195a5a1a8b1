SPECIFICATION QueuesSpec
CONSTANTS
    Alignment = 2
    Size = 9
    Message <- Texts
    Pair <- Pairs
    ReadSize <- Sizes
    Unused = Unused
    Cn = {c1, c2}
    Service = {"Ident"}
    Capacity = 2
    MaxFrames <- TwoFrames
    MaxClears = 1
INVARIANTS TypeOK Backed
PROPERTIES ImplementsFifo CnServed RequestServed
