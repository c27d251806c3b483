SPECIFICATION Spec
CONSTANTS
    t1 = t1
    kitchen = kitchen
    bath = bath
    sink = sink
    tap = tap
    under = under
    floor = floor
    shower = shower
    drains = drains
    dropped = dropped
    part = part
    Card = {drains, dropped, part}
    PlanningTask = {drains, part}
    Room = {kitchen}
    Sections <- KitchenOnly
    Source <- SourceList
    Uncondensed = {}
    Links <- SinkLinks
    Tab = {t1}
    HomeCard <- CardAlone
    Cooldown <- Cooldowns
    Retention = 3
    StorageMayFail = FALSE
    MaxTime = 4
PROPERTIES
    CreditForFreshWork
