SPECIFICATION Spec
CONSTANTS
    anna = anna
    bo = bo
    r1 = r1
    r2 = r2
    NoEntry = NoEntry
    Done = Done
    Address = {anna, bo}
    Role = {"admin", "user"}
    Environment <- Environments
    Request = {r1, r2}
CHECK_DEADLOCK FALSE
INVARIANTS
    DeployedSafely
    StoreOutlivesRequests
    OneAnswer
PROPERTIES
    StopsInTheEnd
