SPECIFICATION FairScenarioSpec
CONSTANTS
    q1 = q1
    q2 = q2
    t1 = t1
    Device = {1, 2}
    Stray = 9
    Garbage = {1, 9}
    Type <- BoardType
    BlankType = "RK3588"
    Task = {t1}
    Overhead <- TaskOverhead
    Status <- Reports
    Full = 2
    MaxFailures = 3
    CacheCalls = 2
    Handler = {q1, q2}
    NoStatus = NoStatus
    NoTask = NoTask
    Chosen = {"boards", "quests", "choice", "race"}
INVARIANTS
    TypeOK
PROPERTIES
    RemovedAfterFailures
    SilentBoardForgotten
