CONSTANTS
    Main = Main
    Other = Other
    Concurrency = 2
    PartLists <- MCPartLists
    MaxPartSize = 2
    MinPartSize = 1
    MaxCalls = 2
    MaxFaults = 1
SPECIFICATION Spec
CHECK_DEADLOCK FALSE
INVARIANTS
    UploadPartsIsWhole
    CompleteTellsTheTruth
    NothingIsLeftOpen
