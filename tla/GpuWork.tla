------------------------------- MODULE GpuWork -------------------------------
(***************************************************************************)
(* Devices and their memory beside the work that is divided over devices   *)
(* and experts.  They share no state and their steps interleave.           *)
(***************************************************************************)
EXTENDS GpuDevices, ParallelExecution

GpuWorkSpec ==
    /\ GpuDevicesInit /\ ParallelInit
    /\ [][(GpuDevicesNext /\ UNCHANGED parallelVars)
          \/ ((ParallelNext \/ MoeNext) /\ UNCHANGED gpuVars)]_<<gpuVars, parallelVars>>

\* GPU memory is accounted for and selected devices can be used, and work cut
\* across devices or experts is done completely and once (GpuAllocator,
\* GpuManager, MultiGpuManager, MoeExecutor).
GpuWorkIsComplete == GpuAccounted /\ WorkIsComplete
=============================================================================
