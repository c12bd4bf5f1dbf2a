------------------------------ MODULE Rollout ------------------------------
(***************************************************************************)
(* A canary deployment (deployment/canary.rs, metrics.rs, thresholds.rs)   *)
(* and the A/B traffic splitter (ab_testing/): a controller that raises a  *)
(* canary's traffic weight step by step on the evidence of the samples     *)
(* both versions collected, and a splitter that maps buckets to variants.  *)
(*                                                                         *)
(* Rates are compared as integers: an error rate in percent of the         *)
(* samples, a latency in tenths of a unit.  Throughput depends on the      *)
(* clock: its level is any.  The caller of the controller may call its     *)
(* operations in any order.                                                *)
(***************************************************************************)
EXTENDS Integers, Sequences, FiniteSets, FiniteSetsExt, Counting

CONSTANTS
    WeightSteps,    \* weight_steps
    MinSamples,     \* min_sample_size
    MaxSamples,     \* max_samples of a collector
    MaxRecorded,    \* bound on the samples recorded between two resets
    MaxCycles,      \* max_cycles
    Latencies,      \* the latencies of a sample
    MaxErrorRise,   \* max_error_rate_increase, in percent
    MaxLatencyRise, \* max_latency_p99_increase - 1, in percent
    VariantLabels,  \* the labels of a traffic configuration, as 1 .. n
    SplitTotal      \* what the weights of a configuration add up to

ASSUME RolloutAssumption ==
    /\ MaxSamples \in Nat \ {0} /\ WeightSteps \in Seq(Nat)
    /\ IsFiniteSet(VariantLabels) /\ VariantLabels = 1 .. Cardinality(VariantLabels)
    /\ SplitTotal \in Nat \ {0}

-----------------------------------------------------------------------------
(* The canary controller                                                       *)

VARIABLES
    phase,    \* CanaryPhase
    weight,   \* traffic_weight
    step,     \* current_step
    cycles,   \* analysis_cycles
    canary,   \* the canary's MetricsCollector: the latest samples, each with the
              \* step it was recorded at, and all errors and samples counted
    stable,   \* the stable version's
    expired,  \* max_duration is over
    decision  \* the last CanaryDecision

canaryVars == <<phase, weight, step, cycles, canary, stable, expired, decision>>

\* MetricsCollector::reset.
NoMetrics == [latest |-> <<>>, errors |-> 0, total |-> 0]
CanaryInit ==
    /\ phase = "initializing" /\ weight = 0 /\ step = 0 /\ cycles = 0
    /\ canary = NoMetrics /\ stable = NoMetrics /\ expired = FALSE /\ decision = "none"

IsTerminal == phase \in {"complete", "failed"}

\* record_success, record_error: the oldest latency makes room, the counters
\* count on.
WithSample(m, l, e) ==
    [latest |-> Append(IF Len(m.latest) >= MaxSamples THEN Tail(m.latest) ELSE m.latest,
                       [latency |-> l, step |-> step]),
     errors |-> m.errors + e, total |-> m.total + 1]
Recorded(m) == {WithSample(m, l, e) : l \in Latencies, e \in 0 .. 1}
RecordCanary ==
    /\ canary.total < MaxRecorded /\ canary' \in Recorded(canary)
    /\ UNCHANGED <<phase, weight, step, cycles, stable, expired, decision>>
RecordStable ==
    /\ stable.total < MaxRecorded /\ stable' \in Recorded(stable)
    /\ UNCHANGED <<phase, weight, step, cycles, canary, expired, decision>>

\* A slip: the samples of the last step are kept.
AdvanceWeightOnly ==
    IF step < Len(WeightSteps)
    THEN /\ step' = step + 1 /\ weight' = WeightSteps[step']
         /\ UNCHANGED <<canary, stable>>
    ELSE UNCHANGED <<step, weight, canary, stable>>
\* advance_weight: the next step starts with no samples.
AdvanceWeight ==
    IF step < Len(WeightSteps)
    THEN /\ step' = step + 1 /\ weight' = WeightSteps[step']
         /\ canary' = NoMetrics /\ stable' = NoMetrics
    ELSE UNCHANGED <<step, weight, canary, stable>>

StartRollout ==
    /\ phase' = "progressing" /\ AdvanceWeight
    /\ UNCHANGED <<cycles, expired, decision>>

\* compute_metrics: the error rate of all samples and, for so few of them, the
\* maximum of the latest as their 99th percentile.
ErrorRate(m) == (100 * m.errors) \div m.total
P99(m) == Max({m.latest[i].latency : i \in DOMAIN m.latest})

\* compute_error_level and compute_latency_level: half, four fifths and all
\* of what is allowed.
Level(excess, allowed) ==
    IF excess <= 0 \/ 10 * excess < 5 * allowed THEN 0
    ELSE IF 10 * excess < 8 * allowed THEN 1
    ELSE IF excess < allowed THEN 2
    ELSE 3
ErrorLevel == Level(ErrorRate(canary) - ErrorRate(stable), MaxErrorRise)
LatencyLevel ==
    IF P99(stable) = 0 THEN 0
    ELSE Level(100 * P99(canary) - 100 * P99(stable), MaxLatencyRise * P99(stable))
\* analyze_thresholds: the worst of the three.
AlertLevels == {Max({ErrorLevel, LatencyLevel, throughput}) : throughput \in 0 .. 3}

HasSufficientSamples == Len(canary.latest) >= MinSamples /\ Len(stable.latest) >= MinSamples

Decide(d, ph) == decision' = d /\ phase' = ph /\ UNCHANGED <<weight, step, canary, stable>>
\* make_decision.
MakeDecision(level) ==
    IF level = 3 THEN Decide("rollback", "rollingBack")
    ELSE IF level = 0
    THEN IF step < Len(WeightSteps) - 1
         THEN decision' = "advance" /\ UNCHANGED phase /\ AdvanceWeight
         ELSE Decide("promote", "promoting")
    ELSE IF cycles' >= MaxCycles
    THEN IF level = 1 THEN Decide("promote", "promoting") ELSE Decide("rollback", "rollingBack")
    ELSE Decide("continue", phase)

Analyze ==
    /\ IF IsTerminal THEN Decide("complete", phase) /\ UNCHANGED cycles
       ELSE IF expired THEN Decide("timeout", "failed") /\ UNCHANGED cycles
       ELSE IF ~HasSufficientSamples THEN Decide("insufficientData", phase) /\ UNCHANGED cycles
       ELSE /\ cycles <= MaxCycles  \* the bound: later cycles decide as this one
            /\ cycles' = cycles + 1
            /\ \E level \in AlertLevels : MakeDecision(level)
    /\ UNCHANGED expired

CompleteRollout ==
    /\ phase' = "complete" /\ weight' = 100
    /\ UNCHANGED <<step, cycles, canary, stable, expired, decision>>
FailRollout ==
    /\ phase' = "failed" /\ weight' = 0
    /\ UNCHANGED <<step, cycles, canary, stable, expired, decision>>
Expire ==
    /\ ~expired /\ expired' = TRUE
    /\ UNCHANGED <<phase, weight, step, cycles, canary, stable, decision>>

CanaryNext == RecordCanary \/ RecordStable \/ StartRollout \/ Analyze
    \/ CompleteRollout \/ FailRollout \/ Expire

-----------------------------------------------------------------------------
(* The traffic splitter                                                        *)

VARIABLES
    weights,   \* TrafficConfig.weights: a label that is not configured has -1
    sticky,    \* sticky_sessions
    splitter,  \* "none", "rejected" or "ready"
    assigned   \* the variants each session's requests went to

splitVars == <<weights, sticky, splitter, assigned>>
Buckets == 0 .. SplitTotal - 1
SplitSessions == Buckets

SplitInit ==
    /\ weights \in [VariantLabels -> -1 .. SplitTotal] /\ sticky \in BOOLEAN
    /\ splitter = "none" /\ assigned = [s \in SplitSessions |-> {}]

Configured == {l \in VariantLabels : weights[l] >= 0}
\* The running total of the labels in the order of the map.
Cumulative(l) == Total(weights, {k \in Configured : k <= l})

\* TrafficConfig::validate.
WeightsAddUp == Total(weights, Configured) = SplitTotal

\* TrafficSplitter::new.
NewSplitter ==
    /\ splitter = "none"
    /\ splitter' = IF WeightsAddUp /\ Configured # {} THEN "ready" ELSE "rejected"
    /\ UNCHANGED <<weights, sticky, assigned>>

\* A slip: the threshold itself still belongs to the variant.
BucketToVariantInclusive(b) == Min({l \in Configured : b <= Cumulative(l)})
\* bucket_to_variant: the first label whose running total is above the bucket.
BucketToVariant(b) == Min({l \in Configured : b < Cumulative(l)})

\* select: a sticky session's bucket is its hash, any other one is random.
Select(s) ==
    /\ splitter = "ready"
    /\ \E b \in IF sticky THEN {s} ELSE Buckets :
           assigned' = [assigned EXCEPT ![s] = @ \union {BucketToVariant(b)}]
    /\ UNCHANGED <<weights, sticky, splitter>>

SplitNext == NewSplitter \/ \E s \in SplitSessions : Select(s)

\* The controller and the splitter share no state and their steps interleave.
RolloutSpec ==
    /\ CanaryInit /\ SplitInit
    /\ [][(CanaryNext /\ UNCHANGED splitVars) \/ (SplitNext /\ UNCHANGED canaryVars)]_<<canaryVars, splitVars>>

-----------------------------------------------------------------------------
(* A decision about a weight is made from samples that were recorded at    *)
(* that weight, never from those of the weight before.                     *)
MeasuredAtThisWeight ==
    /\ \A i \in DOMAIN canary.latest : canary.latest[i].step = step
    /\ \A i \in DOMAIN stable.latest : stable.latest[i].step = step

(* The buckets that lead to a variant are as many as its weight, a         *)
(* variant of weight zero gets none, and a sticky session stays with one.  *)
SplitByWeight ==
    splitter = "ready" =>
        /\ \A l \in Configured : Cardinality({b \in Buckets : BucketToVariant(b) = l}) = weights[l]
        /\ sticky => \A s \in SplitSessions : Cardinality(assigned[s]) <= 1

\* A version gets traffic by evidence of its own weight, and exactly its share
\* (CanaryController::analyze, TrafficSplitter::select).
RolloutIsSound == MeasuredAtThisWeight /\ SplitByWeight
=============================================================================
