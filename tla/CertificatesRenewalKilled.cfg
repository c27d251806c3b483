SPECIFICATION Spec
CONSTANTS
    p1 = p1
    p2 = p2
    NoFile = NoFile
    Empty = Empty
    Unread = Unread
    Process = {p1}
    MaxMints = 6
    MaxAgings = 1
    MaxCrashes = 1
INVARIANTS
    ServedLeafSignedByCa
