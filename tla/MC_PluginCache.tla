--------------------------- MODULE MC_PluginCache ---------------------------
(***************************************************************************)
(* Two nodes of 8 GiB with node_exporter samples, and two pods: p1 is      *)
(* custom-scheduler-test-pod.yaml (200m CPU, 256Mi, annotations 20M, 10M,  *)
(* 5M, 15M), p2 a 100m / 128Mi pod without annotations.  Memory is in      *)
(* units of 12.8 MiB and I/O in units of 0.5 MiB/s (see PluginCore).       *)
(***************************************************************************)
EXTENDS PluginCache

MCNodes == {"n1", "n2"}
MCPods == {"p1", "p2"}
MCCores == [n \in MCNodes |-> IF n = "n1" THEN 4 ELSE 2]
MCCpuBusy == [n \in MCNodes |-> IF n = "n1" THEN 25 ELSE 50]
MCMemTotal == [n \in MCNodes |-> 640]
MCMemAvail == [n \in MCNodes |-> IF n = "n1" THEN 480 ELSE 160]
MCIoRate == [n \in MCNodes |-> [d \in IoDims |-> 40]]
MCPodCpu == [p \in MCPods |-> IF p = "p1" THEN 200 ELSE 100]
MCPodMem == [p \in MCPods |-> IF p = "p1" THEN 20 ELSE 10]
MCPodAnno == [p \in MCPods |->
                IF p = "p1" THEN [diskRead |-> 40, diskWrite |-> 20, netUp |-> 10, netDown |-> 30]
                ELSE [d \in IoDims |-> NoAnno]]

(* A best-effort pod (no requests, no annotations) beside p1.             *)
MCPodsBestEffort == {"p1", "p0"}
MCPodCpuBE == [p \in MCPodsBestEffort |-> IF p = "p1" THEN 200 ELSE 0]
MCPodMemBE == [p \in MCPodsBestEffort |-> IF p = "p1" THEN 20 ELSE 0]
MCPodAnnoBE == [p \in MCPodsBestEffort |->
                  IF p = "p1" THEN [diskRead |-> 40, diskWrite |-> 20, netUp |-> 10, netDown |-> 30]
                  ELSE [d \in IoDims |-> NoAnno]]
=============================================================================
