SPECIFICATION Spec
CONSTANTS
    n1 = n1
    a4 = a4
    b4 = b4
    a6 = a6
    Null = Null
    Without = Without
    Unknown = Unknown
    Hosts <- ThreeHosts
    Answers <- SomeAnswers
    V4 = {a4, b4}
    V6 = {a6}
    Private = {b4}
    Latencies = {1, 2}
    Heights = {Null, 101}
    Proxies = {TRUE}
    Readable = {TRUE}
    Values <- TwoValues
    NewValues <- OneValue
    MaxLines = 3
    MaxRewrites = 4
    FileKinds <- AllKinds
    Entries <- SomeEntries
    MaxEntries = 4
    Limit = 2
    Word = 16
    Atomic = 4
    Variants <- SomeVariants
    MaxEdits = 2
    Texts <- SomeTexts
    Printable <- TwoIDs
    MaxInt = 9
    MaxFloat = 99
    Nil = Nil
    NameLengths = {0, 1, 255}
CHECK_DEADLOCK FALSE
INVARIANTS ReportedByBest LatencyThere BestIsSelected
INVARIANTS SwitchIsComplete OthersKept SkipsOnlyNothing
INVARIANTS OneRewriteSurvived NotOlderThanStamp ReportIsComplete HandedOverClean
INVARIANTS WrongIsReported OnlyOwnMiner
