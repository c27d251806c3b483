SPECIFICATION Spec
CONSTANTS
    malin = malin
    alice = alice
    NoGroup = NoGroup
    NoBundle = NoBundle
    Task = {"deepUpstairs", "deepDownstairs", "resetUpstairs", "mirror", "towels"}
    TaskOrder <- Bank
    Info <- BankInfo
    Person = {malin, alice}
    Adult = {malin}
    Willing = {malin, alice}
    Preferred <- NoPreference
    Private = {}
    LongSession = 3
    Mode = {"area", "timed"}
    DefaultMinutes <- Durations
    TimeOptions <- Options
    AreaOrder <- Areas
    AreaRooms <- Zones
    AllRooms = {"upstairs", "downstairs"}
    FirstChoices <- First
    Incident = {"catPee"}
    Steps <- Protocols
    StepId = {"absorb"}
    Schedules <- Schedule
    MonthOf <- Months
    IdOrder <- ById
    DeepInterval = 1
    LongCard = 3
    Retention = 9
    MaxTime = 2
    MaxStarts = 2
INVARIANTS
    CardsDisjoint
    NothingTooSoon
    DoneMeansDone
    BonusCounted
    NoDeadEnd
