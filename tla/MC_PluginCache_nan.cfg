CONSTANTS
    Nodes <- MCNodes
    Alpha = 50
    Cores <- MCCores
    CpuBusy <- MCCpuBusy
    MemTotalOf <- MCMemTotal
    MemAvail <- MCMemAvail
    IoRate <- MCIoRate
    LabelIsName = TRUE
    NoAnno = NoAnno
    NaN = NaN
    NoEntry = NoEntry
    None = None
    Pods <- MCPodsBestEffort
    PodCpu <- MCPodCpuBE
    PodMem <- MCPodMemBE
    PodAnno <- MCPodAnnoBE
    MayFail = {"cpuCount"}
SPECIFICATION Spec
INVARIANT ScoreInRange
