---------------------- MODULE MC_PreemptiveScheduler ----------------------
(***************************************************************************)
(* A small cluster for TLC: two nodes, one of them with more cores than   *)
(* the 6 that getNodeStats assumes (so its CPUFree can go below zero), two *)
(* low-priority pods already bound to it, one of middle and one of high    *)
(* priority pending.  CPU in cores, memory in GiB.                         *)
(***************************************************************************)
EXTENDS PreemptiveScheduler, TLC

CONSTANTS n1, n2, low1, low2, mid, high

MCNodes == {n1, n2}
MCPods == {low1, low2, mid, high}
MCCpuReq == [p \in MCPods |-> CASE p = high -> 4 [] p = mid -> 2 [] OTHER -> 3]
MCMemReq == [p \in MCPods |-> CASE p = high -> 2 [] p = mid -> 1 [] OTHER -> 2]
MCPrio == [p \in MCPods |-> CASE p = high -> 10 [] p = mid -> 5 [] OTHER -> 1]
MCInitNode == [p \in MCPods |-> IF p \in {low1, low2} THEN n1 ELSE NoNode]
MCNodeCpu == [n \in MCNodes |-> IF n = n1 THEN 8 ELSE 4]
MCNodeMem == [n \in MCNodes |-> IF n = n1 THEN 8 ELSE 4]
MCSchedulable == MCNodes
MCSchedulableN1 == {n1}   \* n2 not Ready or cordoned
\* low1 and low2 have the same requests, priority and node.
MCSymmetry == Permutations({low1, low2})
=============================================================================
