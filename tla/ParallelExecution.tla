-------------------------- MODULE ParallelExecution --------------------------
(***************************************************************************)
(* Models over several devices (engine/multi_gpu*.rs) and over several     *)
(* experts (engine/moe/): how layers, tensors and tokens are divided, run  *)
(* and put together again.  An execution is one step; its data are         *)
(* symbolic: an element is the sequence of stages it went through, a       *)
(* token's result the bag of weighted expert outputs in it.                *)
(***************************************************************************)
EXTENDS Naturals, Sequences, FiniteSets, SequencesExt, Functions, Counting

CONSTANTS
    MaxGpus,        \* bound on the devices
    MaxLayers,      \* bound on the layers of a model
    ManyLayers,     \* the layers from which on a pipeline pays (48)
    ManyGpus,       \* the devices from which on a pipeline pays (4)
    TensorGpus,     \* the devices up to which tensors are divided (8)
    MicroBatches,   \* PipelineParallelExecutor.micro_batches
    MaxElements,    \* bound on the elements of an input
    MoeExperts,     \* MoeConfig.num_experts
    MoeTopK,        \* MoeConfig.top_k
    MoeBatch        \* bound on the tokens of a batch

ASSUME ParallelAssumption ==
    /\ MaxGpus \in Nat /\ MaxLayers \in Nat /\ MaxElements \in Nat
    /\ MicroBatches \in Nat \ {0} /\ MoeTopK \in Nat /\ MoeBatch \in Nat

Strategies == {"Layer", "Tensor", "Pipeline", "Expert", "Auto"}

VARIABLES
    gpus,       \* MultiGpuManager.devices: how many
    partition,  \* MultiGpuManager.partitions: <<first, after the last>> layer of each device
    strategy,   \* active_strategy
    layers,     \* the layers of the model partitioned last
    output,     \* what the last execution produced, with the input it ran on
    routing,    \* RoutingDecision.expert_indices
    combined    \* the combined output of each token

parallelVars == <<gpus, partition, strategy, layers, output, routing, combined>>

NoOutput == [in |-> 0, stages |-> <<>>, out |-> <<>>]
ParallelInit ==
    /\ gpus = 0 /\ partition = <<>> /\ strategy = "Auto" /\ layers = 0
    /\ output = NoOutput /\ routing = <<>> /\ combined = <<>>

-----------------------------------------------------------------------------
(* MultiGpuManager *)

\* new: devices that are not the CPU, at least two, as many as are asked for.
NewMultiGpu(devices, asked) ==
    /\ gpus = 0 /\ devices >= 2
    /\ gpus' = IF asked = 0 \/ asked > devices THEN devices ELSE asked
    /\ UNCHANGED <<partition, strategy, layers, output, routing, combined>>

\* determine_strategy, when the configuration leaves it open.
DetermineStrategy(n, homogeneous, p2p) ==
    IF n > ManyLayers /\ gpus >= ManyGpus /\ p2p THEN "Pipeline"
    ELSE IF homogeneous /\ p2p /\ gpus <= TensorGpus THEN "Tensor" ELSE "Layer"

\* A slip: the remainder is given to no device.
PartitionByLayersEvenly(n) == [i \in 1 .. gpus |-> <<(i - 1) * (n \div gpus), i * (n \div gpus)>>]

\* partition_by_layers: the first n % gpus devices take a layer more.
PartitionByLayers(n) ==
    LET share(i) == n \div gpus + (IF i <= n % gpus THEN 1 ELSE 0)
        start(i) == Total([j \in 1 .. gpus |-> share(j)], 1 .. i - 1)
    IN  [i \in 1 .. gpus |-> <<start(i), start(i) + share(i)>>]
\* partition_by_tensors: every device has a part of every layer.
PartitionByTensors == [i \in 1 .. gpus |-> <<0, MaxLayers>>]

PartitionModel(n, configured, homogeneous, p2p) ==
    LET active == IF configured # "Auto" THEN configured ELSE DetermineStrategy(n, homogeneous, p2p) IN
    /\ gpus > 0
    /\ strategy' = active /\ layers' = n
    /\ partition' = IF active \in {"Tensor", "Expert"} THEN PartitionByTensors ELSE PartitionByLayers(n)
    /\ output' = NoOutput
    /\ UNCHANGED <<gpus, routing, combined>>

-----------------------------------------------------------------------------
(* The executors.  Element k of an input is <<k>>; a stage appends its number *)

Inputs(n) == [k \in 1 .. n |-> <<k>>]
Through(x, stages) == x \o stages

\* LayerParallelExecutor: stage after stage, without the empty ones.
ExecuteLayers(n) ==
    LET stages == SelectSeq([i \in 1 .. gpus |-> i], LAMBDA i : partition[i][2] > partition[i][1]) IN
    /\ strategy = "Layer"
    /\ output' = [in |-> n, stages |-> stages, out |-> [k \in 1 .. n |-> Through(<<k>>, stages)]]
    /\ UNCHANGED <<gpus, partition, strategy, layers, routing, combined>>

\* PipelineParallelExecutor: the input is cut into micro-batches, the last of
\* which takes the rest; each goes through all stages; they are put together.
MicroBatch(n, count, i) ==
    LET size == n \div count IN
    SubSeq(Inputs(n), (i - 1) * size + 1, IF i = count THEN n ELSE i * size)
ExecutePipeline(n) ==
    LET count == IF MicroBatches < n THEN MicroBatches ELSE n
        stages == [i \in 1 .. gpus |-> i]
        done == [i \in 1 .. count |-> LET mb == MicroBatch(n, count, i) IN
                                      [k \in DOMAIN mb |-> Through(mb[k], stages)]]
    IN  /\ strategy = "Pipeline"
        /\ output' = [in |-> n, stages |-> stages, out |-> FlattenSeq(done)]
        /\ UNCHANGED <<gpus, partition, strategy, layers, routing, combined>>

\* TensorParallelExecutor: a shard for each device, the last takes the rest;
\* all_reduce adds them up over the length of the first.  An element of the
\* output is the set of the inputs in it.
TensorShard(n, i) ==
    LET size == n \div gpus IN
    SubSeq(Inputs(n), (i - 1) * size + 1, IF i = gpus THEN n ELSE i * size)
AllReduce(n) == [k \in 1 .. n |->
    IF k > Len(TensorShard(n, 1)) THEN {}
    ELSE {TensorShard(n, i)[k][1] : i \in 1 .. gpus}]
ExecuteTensor(n) ==
    /\ strategy = "Tensor"
    /\ output' = [in |-> n, stages |-> <<>>, out |-> AllReduce(n)]
    /\ UNCHANGED <<gpus, partition, strategy, layers, routing, combined>>

-----------------------------------------------------------------------------
(* Mixture of experts.  The router ranks the experts for each token; which     *)
(* way is the weights' business.                                               *)

TopKChoices == {s \in [1 .. MoeTopK -> 1 .. MoeExperts] : IsInjective(s)}
MoeRoute(choice) ==
    /\ routing' = choice /\ combined' = <<>>
    /\ UNCHANGED <<gpus, partition, strategy, layers, output>>

\* group_by_expert: the tokens of each expert, in order.
GroupByExpert(e) ==
    Ascending({t \in DOMAIN routing : \E k \in 1 .. MoeTopK : routing[t][k] = e})

\* A slip: the output of an expert is read at the token's own index.
TokenOutputGlobal(e, t) == LET group == GroupByExpert(e) IN
    IF t \in DOMAIN group THEN <<e, group[t]>> ELSE <<e, 0>>

\* forward runs on the gathered rows of a group, so row i of its output is
\* that of the group's token i; combine finds the row of a token again.
TokenOutput(e, t) == LET group == GroupByExpert(e) IN
    <<e, group[CHOOSE i \in DOMAIN group : group[i] = t]>>

\* execute_sequential and combine: the weighted sum over a token's experts.
MoeExecute ==
    /\ routing # <<>>
    /\ combined' = [t \in DOMAIN routing |->
                       [k \in 1 .. MoeTopK |-> TokenOutput(routing[t][k], t)]]
    /\ UNCHANGED <<gpus, partition, strategy, layers, output, routing>>

ParallelNext ==
    \/ \E devices \in 0 .. MaxGpus, asked \in 0 .. MaxGpus : NewMultiGpu(devices, asked)
    \/ \E n \in 0 .. MaxLayers, s \in Strategies, homogeneous, p2p \in BOOLEAN :
          PartitionModel(n, s, homogeneous, p2p)
    \/ \E n \in 0 .. MaxElements : ExecuteLayers(n) \/ ExecutePipeline(n) \/ ExecuteTensor(n)
MoeNext ==
    \/ \E n \in 1 .. MoeBatch : \E choice \in [1 .. n -> TopKChoices] : MoeRoute(choice)
    \/ MoeExecute

-----------------------------------------------------------------------------
(* Properties *)

\* Dividing the work changes nothing of it: the devices' layers follow on each
\* other and cover the model, whatever the remainder; an element leaves the
\* pipeline in its place after every stage in order, whatever the sizes of the
\* micro-batches; and a token gets the outputs its own experts computed for
\* it, although experts see only the rows of their group.
WorkIsComplete ==
    /\ strategy \in {"Layer", "Pipeline"} /\ partition # <<>> =>
          /\ partition[1][1] = 0 /\ partition[gpus][2] = layers
          /\ \A i \in 1 .. gpus - 1 : partition[i][2] = partition[i + 1][1]
          /\ \A i, j \in 1 .. gpus :
                partition[i][2] - partition[i][1] <= partition[j][2] - partition[j][1] + 1
    /\ strategy \in {"Layer", "Pipeline"} =>
          output.out = [k \in 1 .. output.in |-> <<k>> \o output.stages]
    /\ \A t \in DOMAIN combined : \A k \in 1 .. MoeTopK :
          combined[t][k] = <<routing[t][k], t>>
=============================================================================
