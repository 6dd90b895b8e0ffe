SPECIFICATION ScenarioSpec
CONSTANTS
    m1 = m1
    m2 = m2
    n1 = n1
    n2 = n2
    r1 = r1
    r2 = r2
    Nobody = Nobody
    NoNode = NoNode
    Main = {m1, m2}
    Node = {n1, n2}
    Request = {r1, r2}
    Server <- AllServers
    Runtime <- Runtimes
    Form <- Forms
    StartLimit = 1
    InvokeLimit = 1
    IdleLimit = 2
    Chosen = {"failover", "contention", "overtaken"}
SYMMETRY MainSymmetry
INVARIANTS
    TypeOK
    BusyHasOwner
    TakenOverOnlyAfterTimeout
PROPERTIES
    AwaitedNotExpired
