SPECIFICATION FairScenarioSpec
CONSTANTS
    n1 = n1
    n2 = n2
    r1 = r1
    r2 = r2
    Nobody = Nobody
    Server = {"image", "imageAscend", "text", "segmentation", "board"}
    Request = {r1, r2}
    Node = {n1, n2}
    Offers <- Catalog
    ProcTime <- Times
    Load = {0, 1}
    Text <- Texts
    Json <- Meanings
    CallLimit <- Limits
INVARIANTS
    TypeOK
    StrayQuestOnlyAfterLostCall
    ResultReachesClient
    FileOutlivesUse
PROPERTIES
    NamedPairIsTaken
    Executes
CHECK_DEADLOCK FALSE
