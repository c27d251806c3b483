SPECIFICATION Spec
CONSTANTS
    t1 = t1
    kitchen = kitchen
    bath = bath
    sink = sink
    tap = tap
    under = under
    floor = floor
    shower = shower
    drains = drains
    dropped = dropped
    part = part
    Card = {drains, dropped, part}
    PlanningTask = {drains, part}
    Room = {kitchen, bath}
    Sections <- TwoRooms
    Source <- SourceList
    Uncondensed = {bath}
    Links <- TwoRoomLinks
    Tab = {t1}
    HomeCard <- CardWithPart
    Cooldown <- Cooldowns
    Retention = 3
    StorageMayFail = FALSE
    MaxTime = 6
INVARIANTS
    NeverPutAside
    Remembered
    ProgressKept
PROPERTIES
    NoDoubleCredit
    NothingOutdatedWritten
