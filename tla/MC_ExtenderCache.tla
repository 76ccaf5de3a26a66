--------------------------- MODULE MC_ExtenderCache ---------------------------
(***************************************************************************)
(* Two nodes whose node_exporter instances are "<name>:9100", two pods and *)
(* one HTTP request (requests share nothing but the cache).  Node "n1" is *)
(* lightly loaded, the other busy with an almost idle disk.  In the faults *)
(* cfg the nodes are "n1" and "n10", so the label of n10 contains "n1".   *)
(***************************************************************************)
EXTENDS ExtenderCache

MCNodesDistinct == {"n1", "n2"}
MCNodesPrefix == {"n1", "n10"}
MCPods == {"p1", "p2"}
MCRequests == {"r1"}

\* strings.Contains(instance, h) || strings.Contains(h, host part of instance)
\* over the instance labels "<m>:9100" of Hosts: "n10:9100" contains "n1",
\* and "n10" contains the host part "n1", so n1 and n10 match each other.
MCMatchSet == [h \in Hosts |-> {m \in Hosts : m = h \/ {h, m} = {"n1", "n10"}}]

MCCpuUsed == [h \in Hosts |-> IF h = "n1" THEN 1 ELSE 5]
MCMemTotalOf == [h \in Hosts |-> IF h = "n1" THEN 8 ELSE 4]
MCMemAvail == [h \in Hosts |-> IF h = "n1" THEN 6 ELSE 1]
MCIoRate == [h \in Hosts |->
               IF h = "n1" THEN [diskRead |-> 30, diskWrite |-> 10, netUp |-> 0, netDown |-> 20]
               ELSE [diskRead |-> 2, diskWrite |-> 0, netUp |-> 4, netDown |-> 0]]

\* p1: 1 core, 1 GiB, a web image; p2: 2 cores, a database image and a
\* disk-read annotation of 5 MiB/s.
MCPodCpu == [p \in MCPods |-> IF p = "p1" THEN 1 ELSE 2]
MCPodMem == [p \in MCPods |-> IF p = "p1" THEN 1 ELSE 0]
MCPodImages == [p \in MCPods |-> IF p = "p1" THEN {"web"} ELSE {"db"}]
MCPodAnno == [p \in MCPods |-> [d \in IoDims |->
                IF p = "p2" /\ d = "diskRead" THEN 5 ELSE NoAnno]]
=============================================================================
