SPECIFICATION Spec
CONSTANTS
    t1 = t1
    t2 = t2
    d1 = d1
    d2 = d2
    h1 = h1
    h2 = h2
    NoDevice = NoDevice
    NoSlot = NoSlot
    Unlinked = Unlinked
    Handler = {h1}
    Task = {t1}
    Device = {d1}
    Configured <- OnePair
    WaitTicks = 1
    Workload = {"quest"}
INVARIANTS
    NoRemovalUnderQuest
