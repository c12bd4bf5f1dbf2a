------------------------------ MODULE GpuDevices ------------------------------
(***************************************************************************)
(* GPU devices and their memory (engine/gpu.rs, gpu_manager.rs,            *)
(* gpu_allocator.rs, gpu_pool.rs, cuda.rs, metal.rs): detection, selection *)
(* and the bookkeeping of allocations.  The allocator's state is behind    *)
(* one lock; its owners drop their memory in any order.                    *)
(*                                                                         *)
(* The driver is external: how many devices it counts, which of them open, *)
(* and how much memory they report.                                        *)
(***************************************************************************)
EXTENDS Naturals, Sequences, FiniteSets, SequencesExt, Counting

CONSTANTS
    GpuDriverDevices,  \* bound on the devices the driver counts
    GpuCapacity,       \* the capacity of the allocator
    GpuPoolMax,        \* GpuMemoryPool.max_size
    GpuMaxAllocations  \* bound on the allocations made

ASSUME GpuAssumption ==
    /\ GpuDriverDevices \in Nat /\ GpuCapacity \in Nat /\ GpuPoolMax \in Nat
    /\ GpuMaxAllocations \in Nat

GpuBackends == {"Cuda", "Metal", "Cpu"}
GpuSizes == 0 .. GpuCapacity + 1
NoDevice == [backend |-> "none", index |-> 0, memory |-> 0, compute |-> <<0, 0>>]

VARIABLES
    driver,         \* what the driver reports: backend, count, devices that open
    gpuConfig,      \* GpuConfig: backend and device_index
    gpuFound,       \* GpuManager.devices
    gpuActive,      \* GpuManager.active_device
    backendDevices, \* CudaBackend.devices or MetalBackend.devices
    backendActive,  \* active_index of that backend: a set of at most one
    gpuLive,        \* MockState.allocations: id -> size
    gpuTotal,       \* MockState.total
    gpuNextId,      \* next_id
    gpuMemory,      \* the GpuMemory values alive: id -> size
    gpuPoolTotal,   \* GpuMemoryPool.total_allocated
    gpuBuffers      \* device buffers: size and content

gpuVars == <<driver, gpuConfig, gpuFound, gpuActive, backendDevices, backendActive,
             gpuLive, gpuTotal, gpuNextId, gpuMemory, gpuPoolTotal, gpuBuffers>>
gpuDeviceVars == <<driver, gpuConfig, gpuFound, gpuActive, backendDevices, backendActive>>
gpuMemoryVars == <<gpuLive, gpuTotal, gpuNextId, gpuMemory, gpuPoolTotal, gpuBuffers>>

GpuAllocationIds == 1 .. GpuMaxAllocations
GpuBufferIds == {1, 2}
NoBuffer == [size |-> 0, data |-> "none"]

\* GpuDevice::cpu, and has_memory: the CPU always has, a device what it
\* reported when it was found.
GpuCpu == [backend |-> "Cpu", index |-> 0, memory |-> 0, compute |-> <<0, 0>>]
HasMemory(d, size) == d.backend = "Cpu" \/ d.memory >= size

\* MockGpuAllocator::new; the CUDA and Metal allocators begin the same.
GpuAllocatorInit ==
    /\ gpuLive = [i \in {} |-> 0] /\ gpuTotal = 0 /\ gpuNextId = 1
    /\ gpuMemory = [i \in {} |-> 0] /\ gpuPoolTotal = 0
    /\ gpuBuffers = [b \in GpuBufferIds |-> NoBuffer]

GpuDevicesInit ==
    /\ driver \in [backend : {"Cuda", "Metal", "Cpu"}, count : 0 .. GpuDriverDevices,
                   open : SUBSET (0 .. GpuDriverDevices - 1), memory : {1, GpuCapacity}]
    /\ driver.open \subseteq 0 .. driver.count - 1
    /\ driver.backend = "Metal" => driver.open = 0 .. driver.count - 1
    /\ gpuConfig \in [backend : GpuBackends, index : 0 .. GpuDriverDevices]
    /\ gpuFound = <<>> /\ gpuActive = NoDevice
    /\ backendDevices = <<>> /\ backendActive = {}
    /\ GpuAllocatorInit

-----------------------------------------------------------------------------
(* Detection and selection *)

\* query_device_info of CUDA and of Metal: what a device tells, with the
\* defaults for what it does not.
CudaInfo(i) == [backend |-> "Cuda", index |-> i, memory |-> driver.memory, compute |-> <<8, i>>]
MetalInfo(i) == [backend |-> "Metal", index |-> i, memory |-> driver.memory, compute |-> <<0, 0>>]

\* CudaBackend::detect_devices skips the devices that do not open;
\* MetalBackend::detect_devices takes all.  Without a driver or a device the
\* backend is not made.
CudaDevices ==
    IF driver.backend # "Cuda" THEN <<>>
    ELSE LET open == Ascending(driver.open) IN [k \in DOMAIN open |-> CudaInfo(open[k])]
MetalDevices ==
    IF driver.backend # "Metal" THEN <<>> ELSE [k \in 1 .. driver.count |-> MetalInfo(k - 1)]

\* GpuManager::detect_devices: the CPU first, then what the backends found; a
\* GPU is asked for and there is none: an error.
DetectedDevices == <<GpuCpu>> \o CudaDevices \o MetalDevices
NoDevicesAvailable == Len(DetectedDevices) = 1 /\ gpuConfig.backend # "Cpu"

\* select_device: the device of the configured backend and index, else the
\* CPU when a GPU was asked for, else an error.
Matching == {d \in ToSet(DetectedDevices) : d.backend = gpuConfig.backend /\ d.index = gpuConfig.index}
NewManager ==
    /\ gpuFound = <<>>
    /\ gpuFound' = DetectedDevices
    /\ gpuActive' = IF NoDevicesAvailable THEN NoDevice
                    ELSE IF Matching # {} THEN CHOOSE d \in Matching : TRUE
                    ELSE IF gpuConfig.backend # "Cpu" THEN GpuCpu ELSE NoDevice
    /\ UNCHANGED <<driver, gpuConfig, backendDevices, backendActive, gpuMemoryVars>>

NewCudaBackend ==
    /\ driver.backend = "Cuda" /\ driver.count > 0 /\ backendDevices = <<>>
    /\ backendDevices' = CudaDevices
    /\ UNCHANGED <<driver, gpuConfig, gpuFound, gpuActive, backendActive, gpuMemoryVars>>
NewMetalBackend ==
    /\ driver.backend = "Metal" /\ driver.count > 0 /\ backendDevices = <<>>
    /\ backendDevices' = MetalDevices
    /\ UNCHANGED <<driver, gpuConfig, gpuFound, gpuActive, backendActive, gpuMemoryVars>>

\* A slip: the list's entry at the index, opened without asking the driver.
SelectCudaDeviceUnopened(i) ==
    /\ driver.backend = "Cuda" /\ i < Len(backendDevices)
    /\ backendActive' = {i}
    /\ UNCHANGED <<driver, gpuConfig, gpuFound, gpuActive, backendDevices, gpuMemoryVars>>

\* CudaBackend::select_device holds the index against the length of the list,
\* from which the devices that did not open are missing, and then opens the
\* device of that number.
SelectCudaDevice(i) ==
    /\ driver.backend = "Cuda" /\ i < Len(backendDevices) /\ i \in driver.open
    /\ backendActive' = {i}
    /\ UNCHANGED <<driver, gpuConfig, gpuFound, gpuActive, backendDevices, gpuMemoryVars>>
SelectMetalDevice(i) ==
    /\ driver.backend = "Metal" /\ i < Len(backendDevices)
    /\ backendActive' = {i}
    /\ UNCHANGED <<driver, gpuConfig, gpuFound, gpuActive, backendDevices, gpuMemoryVars>>

-----------------------------------------------------------------------------
(* Allocation *)

AllocatorFits(size) == gpuTotal + size <= GpuCapacity
\* GpuAllocator::allocate, and the GpuMemory that owns the allocation.
GpuAllocate(size) ==
    /\ AllocatorFits(size) /\ gpuNextId <= GpuMaxAllocations
    /\ gpuLive' = [i \in DOMAIN gpuLive \union {gpuNextId} |->
                      IF i = gpuNextId THEN size ELSE gpuLive[i]]
    /\ gpuMemory' = [i \in DOMAIN gpuMemory \union {gpuNextId} |->
                        IF i = gpuNextId THEN size ELSE gpuMemory[i]]
    /\ gpuTotal' = gpuTotal + size /\ gpuNextId' = gpuNextId + 1

\* GpuManager::allocate_memory, for the active device.
AllocateMemory(size) ==
    /\ gpuActive # NoDevice /\ HasMemory(gpuActive, size)
    /\ GpuAllocate(size)
    /\ UNCHANGED <<gpuDeviceVars, gpuPoolTotal, gpuBuffers>>

\* GpuMemoryPool::allocate counts what it handed out and never takes it back.
PoolAllocate(size) ==
    /\ gpuPoolTotal + size <= GpuPoolMax
    /\ GpuAllocate(size)
    /\ gpuPoolTotal' = gpuPoolTotal + size
    /\ UNCHANGED <<gpuDeviceVars, gpuBuffers>>

\* A slip: the entry stays in the allocator.
DeallocateTotalOnly(id) == gpuTotal' = gpuTotal - gpuLive[id] /\ UNCHANGED gpuLive
\* deallocate, which the drop of a GpuMemory calls.
Deallocate(id) ==
    /\ gpuLive' = [i \in DOMAIN gpuLive \ {id} |-> gpuLive[i]]
    /\ gpuTotal' = gpuTotal - gpuLive[id]
DropGpuMemory(id) ==
    /\ id \in DOMAIN gpuMemory /\ Deallocate(id)
    /\ gpuMemory' = [i \in DOMAIN gpuMemory \ {id} |-> gpuMemory[i]]
    /\ UNCHANGED <<gpuDeviceVars, gpuNextId, gpuPoolTotal, gpuBuffers>>

-----------------------------------------------------------------------------
(* Device buffers: CudaMemoryBuffer and MetalBuffer *)

AllocBuffer(b, size) ==
    /\ backendActive # {} /\ gpuBuffers[b] = NoBuffer
    /\ gpuBuffers' = [gpuBuffers EXCEPT ![b] = [size |-> size, data |-> "fresh"]]
    /\ UNCHANGED <<gpuDeviceVars, gpuLive, gpuTotal, gpuNextId, gpuMemory, gpuPoolTotal>>
\* copy_from_host and copy_from: the sizes have to agree.
CopyFromHost(b, size) ==
    /\ gpuBuffers[b] # NoBuffer /\ size = gpuBuffers[b].size
    /\ gpuBuffers' = [gpuBuffers EXCEPT ![b].data = "host"]
    /\ UNCHANGED <<gpuDeviceVars, gpuLive, gpuTotal, gpuNextId, gpuMemory, gpuPoolTotal>>
CopyFromDevice(b, src) ==
    /\ gpuBuffers[b] # NoBuffer /\ gpuBuffers[src].size = gpuBuffers[b].size
    /\ gpuBuffers' = [gpuBuffers EXCEPT ![b].data = gpuBuffers[src].data]
    /\ UNCHANGED <<gpuDeviceVars, gpuLive, gpuTotal, gpuNextId, gpuMemory, gpuPoolTotal>>

GpuMemoryNext ==
    \/ NewManager
    \/ \E size \in GpuSizes : AllocateMemory(size) \/ PoolAllocate(size)
    \/ \E id \in GpuAllocationIds : DropGpuMemory(id)
GpuDeviceNext ==
    \/ NewCudaBackend \/ NewMetalBackend
    \/ \E i \in 0 .. GpuDriverDevices : SelectCudaDevice(i) \/ SelectMetalDevice(i)
    \/ \E b, src \in GpuBufferIds, size \in {0, 1} :
          AllocBuffer(b, size) \/ CopyFromHost(b, size) \/ CopyFromDevice(b, src)
GpuDevicesNext == GpuMemoryNext \/ GpuDeviceNext

-----------------------------------------------------------------------------
(* Properties *)

\* The allocator's total is what its live owners hold and never more than its
\* capacity, whatever is allocated directly, through the pool or dropped in
\* between; the pool, which never takes memory back, counts at least what is
\* left of it (gpu_allocator.rs, gpu_pool.rs).  A selected device is one that
\* detection listed (cuda.rs, metal.rs, select_device).
GpuAccounted ==
    /\ gpuLive = gpuMemory
    /\ gpuTotal = Total(gpuLive, DOMAIN gpuLive)
    /\ gpuTotal <= GpuCapacity /\ gpuPoolTotal <= GpuPoolMax
    /\ \A i \in backendActive : \E d \in ToSet(backendDevices) : d.index = i
    /\ gpuActive # NoDevice => gpuActive \in ToSet(gpuFound)
=============================================================================
