CONSTANTS
    n1 = n1
    n2 = n2
    low1 = low1
    low2 = low2
    mid = mid
    high = high
    NoNode = NoNode
    NoPod = NoPod
    Nodes <- MCNodes
    Pods <- MCPods
    CpuReq <- MCCpuReq
    MemReq <- MCMemReq
    Prio <- MCPrio
    InitNode <- MCInitNode
    NodeCpu <- MCNodeCpu
    NodeMem <- MCNodeMem
    Schedulable <- MCSchedulable
    CpuTotalAssumed = 6
    DefaultCpuFree = 2
    DefaultMemTotal = 8
    DefaultMemFree = 4
    AlphaNum = 4
    AlphaDen = 5
    PreemptionModes = {TRUE}
    ExactKey = TRUE
    MetricsMayFail = FALSE
    ApiMayFail = FALSE
SPECIFICATION Spec
SYMMETRY MCSymmetry
INVARIANT NodeStatsClamped
