CONSTANTS
    Nodes <- MCNodesDistinct
    ExactPort = TRUE
    MayFail = {}
    Pods <- MCPods
    Requests <- MCRequests
    Hosts <- MCNodesDistinct
    CpuUsed <- MCCpuUsed
    MemTotalOf <- MCMemTotalOf
    MemAvail <- MCMemAvail
    IoRate <- MCIoRate
    MatchSet <- MCMatchSet
    PodCpu <- MCPodCpu
    PodMem <- MCPodMem
    PodImages <- MCPodImages
    PodAnno <- MCPodAnno
    NoAnno = NoAnno
    NoEntry = NoEntry
    MaxScore = 100
SPECIFICATION Spec
INVARIANT TypeOK
PROPERTY EveryHostCached
