----------------------------- MODULE MCDevices -----------------------------
(* Devices and the services they rest on, on one small instance each: host   *)
(* interrupts, the pool of threads, the network device and CUDA with the ADB. *)
(* They share no state; a behaviour is one of one of them.                   *)
EXTENDS HostIrq, ThreadPool, Enet, Cuda

VARIABLE focus

deviceVars == <<hostVars, poolVars, enetVars, cudaVars, focus>>

DevicesInit ==
    /\ focus \in {"hostirq", "threads", "enet", "cuda"}
    /\ HostInit /\ PoolInit /\ EnetInit /\ CudaInit

DevicesNext ==
    \/ focus = "hostirq" /\ HostNext /\ UNCHANGED <<poolVars, enetVars, cudaVars, focus>>
    \/ focus = "threads" /\ PoolNext /\ UNCHANGED <<hostVars, enetVars, cudaVars, focus>>
    \/ focus = "enet" /\ EnetNext /\ UNCHANGED <<hostVars, poolVars, cudaVars, focus>>
    \/ focus = "cuda" /\ CudaNext /\ UNCHANGED <<hostVars, poolVars, enetVars, focus>>

DevicesSpec ==
    /\ DevicesInit /\ [][DevicesNext]_deviceVars
    /\ HostFairness /\ PoolFairness /\ EnetFairness /\ CudaFairness
=============================================================================
