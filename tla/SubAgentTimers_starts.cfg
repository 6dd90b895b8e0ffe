SPECIFICATION FairSpec
CONSTANTS
    h1 = h1
    h2 = h2
    a1 = a1
    a2 = a2
    d1 = d1
    o1 = o1
    o2 = o2
    o3 = o3
    o4 = o4
    NoTimer = NoTimer
    NoKey = NoKey
    Nobody = Nobody
    Collector = Collector
    Handler = {h1, h2}
    Agent = {a1}
    Device = {d1}
    Timer = {o1, o2}
INVARIANTS
    TypeOK
    LiveEntry
    OwnEntry
PROPERTIES
    StartsEnd
    CallbackEnds
