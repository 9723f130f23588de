-------------------------- MODULE MCDeviceWorkers ---------------------------
(* Two devices: a CPU with fewer sub-lanes than configured threads, a GPU.  *)
EXTENDS DeviceWorkers, TLC

MCWork == [id : 1..MaxSets, body : Bodies]
MCOneRequested == 1 :> 1
MCRequested == (0 :> 2) @@ (1 :> 1)
=============================================================================
