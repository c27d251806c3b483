SPECIFICATION Spec
CONSTANTS
    malin = malin
    jorgen = jorgen
    alice = alice
    ella = ella
    NoGroup = NoGroup
    Task = {"deepUpstairs", "deepDownstairs", "guestSweep", "guestEntry", "resetUpstairs", "airing", "rubbish", "mirror", "shelf"}
    TaskOrder <- Bank
    Info <- BankInfo
    Person = {malin, jorgen, alice, ella}
    Adult = {malin, jorgen}
    Willing = {malin, jorgen, alice}
    Preferred <- NoPreference
    Private = {"upstairs"}
    LongSession = 4
    Inputs <- AllInputs
CHECK_DEADLOCK FALSE
INVARIANTS
    WithinMeans
    MinutesAddUp
    NoDoubleWork
    NothingWasted
    PriorityRespected
    LoopIsBuildPlan
