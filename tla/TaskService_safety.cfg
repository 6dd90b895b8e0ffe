SPECIFICATION ScenarioSpec
CONSTANTS
    t1 = t1
    t2 = t2
    d1 = d1
    d2 = d2
    h1 = h1
    h2 = h2
    NoDevice = NoDevice
    NoSlot = NoSlot
    Unlinked = Unlinked
    Handler = {h1, h2}
    Task = {t1}
    Device = {d1, d2}
    Configured <- OnePair
    WaitTicks = 1
    Workload = {"quest", "questOnNode", "hotStart", "disconnect"}
    Chosen = {"concurrent", "serial"}
SYMMETRY HandlerSymmetry
INVARIANTS
    TypeOK
    CreatingHasOwner
    DeletingHasOwner
    RunningIsTimed
    TimerHasEntry
    StoppingIsJoined
    SerialAnswerIsPublished
PROPERTIES
    SerialGatewaySurvives
