SPECIFICATION Spec
CONSTANTS
    NoGroup = NoGroup
    Nothing = Nothing
    Task = {"deepUp", "deepDown", "care", "windows"}
    TaskOrder <- Bank
    IdOrder <- ById
    Info <- BankInfo
    Person = {}
    Adult = {}
    Willing = {}
    Preferred = {}
    Private = {}
    LongSession = 3
    MonthOf <- Months
    DeepInterval = 3
    LongCard = 3
    Banks <- Versions
    DayLength = 2
    DeepSpacing = 2
    Hash <- Hashes
    DefaultRecurrence = 3
    HalfYear = 4
    Year = 5
    SeasonSearch = 5
    Retention = 5
    MaxTime = 6
    MaxDone = 2
INVARIANTS
    KeepsItsWord
    RestedBeforeSuggested
PROPERTIES
    ReleasedForGood
    Announced
