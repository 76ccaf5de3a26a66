CONSTANTS
    Nodes <- MCNodes
    Alpha = 50
    Cores <- MCCores
    CpuBusy <- MCCpuBusy
    MemTotalOf <- MCMemTotal
    MemAvail <- MCMemAvail
    IoRate <- MCIoRate
    LabelIsName = TRUE
    NoAnno = NoAnno
    NaN = NaN
    NoEntry = NoEntry
    None = None
    Pods <- MCPods
    PodCpu <- MCPodCpu
    PodMem <- MCPodMem
    PodAnno <- MCPodAnno
    MayFail = {"cpuCount", "memTotal"}
SPECIFICATION Spec
INVARIANTS TypeOK NormalizeRescales
PROPERTY RefreshNotStarved
