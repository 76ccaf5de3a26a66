CONSTANTS
    Nodes <- MCNodesPrefix
    ExactPort = FALSE
    MayFail = {"cpu", "memTotal", "memAvail"}
    Pods <- MCPods
    Requests <- MCRequests
    Hosts <- MCNodesPrefix
    CpuUsed <- MCCpuUsed
    MemTotalOf <- MCMemTotalOf
    MemAvail <- MCMemAvail
    IoRate <- MCIoRate
    MatchSet <- MCMatchSet
    PodCpu <- MCPodCpu
    PodMem <- MCPodMem
    PodImages <- MCPodImages
    PodAnno <- MCPodAnno
    NoAnno = NoAnno
    NoEntry = NoEntry
    MaxScore = 100
SPECIFICATION Spec
INVARIANTS TypeOK RejectedScoresZero
