SPECIFICATION Spec
CONSTANTS
    p1 = p1
    p2 = p2
    NoFile = NoFile
    Empty = Empty
    Unread = Unread
    Process = {p1}
    MaxMints = 8
    MaxAgings = 3
    MaxCrashes = 2
INVARIANTS
    LeafFitsWholeCa
    ServedPairOnDisk
PROPERTIES
    TrustLasts
    StartSucceeds
