SPECIFICATION Spec
CONSTANTS
    anna = anna
    bo = bo
    Nothing = Nothing
    Cleared = Cleared
    Address = {anna, bo}
    Role = {"admin", "user"}
    Setting <- Deployments
    FirstSetting <- First
    CodeTTL = 2
    ResendAfter = 3
    TokenTTL = 1
    Leeway = 1
    Second = 2
    MaxCalls = 2
    MaxTime = 2
    MaxIssues = 2
    MaxRestarts = 1
CHECK_DEADLOCK FALSE
INVARIANTS
    OutMeansOut
    AgreeWhenQuiet
    PendingIsEntered
PROPERTIES
    ResendAccepted
    OldRoleRunsOut
