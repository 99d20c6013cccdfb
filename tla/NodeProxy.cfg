SPECIFICATION ProbeSpec
CONSTANTS
    n1 = n1
    a4 = a4
    b4 = b4
    Null = Null
    Hosts <- TwoHosts
    Answers <- SomeAnswers
    V4 = {a4, b4}
    V6 = {}
    Private = {b4}
    Latencies = {1}
    Heights = {101}
    Proxies = {TRUE}
    Readable = {TRUE, FALSE}
CHECK_DEADLOCK FALSE
INVARIANTS ProbedThroughProxy
