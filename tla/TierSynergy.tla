----------------------------- MODULE TierSynergy -----------------------------
(***************************************************************************)
(* Tier synergy (models/tier_synergy/mod.rs, tier_synergy_speculative.rs,  *)
(* service_routing.rs): which model of which tier serves a request, and    *)
(* which draft model helps it.  The mode and the tiers have a lock each; a *)
(* registration writes the tiers, gives them up and then derives the mode  *)
(* under their read lock; a request reads the mode first and holds the     *)
(* tiers' read lock from then to its end.                                  *)
(*                                                                         *)
(* The loader is the smart loader as its callers see it: a get loads the   *)
(* model if need be or fails, and an idle model may be unloaded.           *)
(***************************************************************************)
EXTENDS Naturals, FiniteSets

CONSTANTS
    TierIds,       \* model ids
    Registrars,    \* concurrent register_tier calls
    TierRequests   \* concurrent requests

SynTiers == {"Light", "Balanced", "Quality"}
ServiceTiers == {"Bronze", "Silver", "Gold"}
\* LoadHint: a batch of up to 5, of up to 10 and of more; PreferModel is its tier.
SynHints == SynTiers \union
    {"QuickQuery", "ComplexTask", "SmallBatch", "Batch", "LargeBatch", "UserIdle"}
NoId == "no model"

ASSUME TierIdsAssumption == NoId \notin TierIds

VARIABLES
    tierModel,     \* TierSynergy.tier_models
    synergyMode,   \* TierSynergy.mode
    registrar,     \* where each registration is
    synergy,       \* where each request is, and its result
    tierLoaded     \* the models the loader holds

synergyVars == <<tierModel, synergyMode, registrar, synergy, tierLoaded>>

SynIdle == [at |-> "idle", hint |-> "UserIdle", mode |-> {}, primary |-> NoId, draft |-> NoId]

\* A mode is the pair of tiers it speculates with, {} for Single.
SynergyInit ==
    /\ tierModel = [t \in SynTiers |-> NoId] /\ synergyMode = {}
    /\ registrar = [g \in Registrars |-> "idle"]
    /\ synergy = [r \in TierRequests |-> SynIdle]
    /\ tierLoaded = {}

Available == {t \in SynTiers : tierModel[t] # NoId}
LightQuality == {"Light", "Quality"}
LightBalanced == {"Light", "Balanced"}
BalancedQuality == {"Balanced", "Quality"}

\* The best pair there is, light drafts first.
BestPair(tiers) ==
    CASE LightQuality \subseteq tiers -> LightQuality
      [] LightBalanced \subseteq tiers /\ ~LightQuality \subseteq tiers -> LightBalanced
      [] BalancedQuality \subseteq tiers /\ "Light" \notin tiers -> BalancedQuality
      [] OTHER -> {}

TiersRead == \E r \in TierRequests : synergy[r].at \in {"serve", "draft"}

\* register_tier writes the tier when no request reads the tiers ...
RegisterTier(g, tier, id) ==
    /\ registrar[g] = "idle" /\ ~TiersRead
    /\ tierModel' = [tierModel EXCEPT ![tier] = id]
    /\ registrar' = [registrar EXCEPT ![g] = "detect"]
    /\ UNCHANGED <<synergyMode, synergy, tierLoaded>>

\* A slip: a pair that was found once is kept.
DetectModeOnce(g) ==
    /\ registrar[g] = "detect"
    /\ synergyMode' = IF synergyMode = {} THEN BestPair(Available) ELSE synergyMode
    /\ registrar' = [registrar EXCEPT ![g] = "idle"]
    /\ UNCHANGED <<tierModel, synergy, tierLoaded>>

\* ... and derives the mode with the tiers' read lock held across the write.
DetectOptimalMode(g) ==
    /\ registrar[g] = "detect"
    /\ synergyMode' = BestPair(Available)
    /\ registrar' = [registrar EXCEPT ![g] = "idle"]
    /\ UNCHANGED <<tierModel, synergy, tierLoaded>>

\* tier_to_load_hint for a request that comes with a service tier.
TierToLoadHint(service) ==
    CASE service = "Bronze" -> "QuickQuery" [] service = "Silver" -> "UserIdle"
      [] service = "Gold" -> "ComplexTask"

\* request reads the mode, under a lock of its own.
SynergyRequest(r, hint) ==
    /\ synergy[r].at = "idle"
    /\ synergy' = [synergy EXCEPT ![r] = [SynIdle EXCEPT !.at = "lock", !.hint = hint, !.mode = synergyMode]]
    /\ UNCHANGED <<tierModel, synergyMode, registrar, tierLoaded>>
ServiceRequest(r, service) == SynergyRequest(r, TierToLoadHint(service))

\* The loader's answer: the model, loaded from now on, or an error.
LoaderGet(id) == tierLoaded' = tierLoaded \union {id}

\* select_model_for_hint: the tier the hint asks for, or the nearest.
HintTier(hint) ==
    CASE hint \in SynTiers -> hint [] hint = "QuickQuery" -> "Light"
      [] hint \in {"ComplexTask", "LargeBatch"} -> "Quality"
      [] OTHER -> "Balanced"
Preference(tier) ==
    CASE tier = "Light" -> <<"Light", "Balanced", "Quality">>
      [] tier = "Balanced" -> <<"Balanced", "Quality", "Light">>
      [] tier = "Quality" -> <<"Quality", "Balanced", "Light">>
FirstOf(order, tiers) == order[CHOOSE i \in DOMAIN order :
    order[i] \in tiers /\ \A j \in 1 .. i - 1 : order[j] \notin tiers]

Speculates(call) ==
    call.mode = LightQuality /\ call.hint \in {"ComplexTask", "Batch", "LargeBatch"}
\* A quick query never runs on the quality tier.
Candidates(call) == IF call.hint = "QuickQuery" THEN Available \ {"Quality"} ELSE Available
SynFail(r) == synergy' = [synergy EXCEPT ![r] = [SynIdle EXCEPT !.at = "failed"]]

\* With the tiers locked: the primary model.
ServePrimary(r) ==
    LET call == synergy[r]
        tier == IF Speculates(call) THEN "Quality"
                ELSE FirstOf(Preference(HintTier(call.hint)), Candidates(call))
    IN  /\ call.at = "lock"
        /\ \/ /\ ~Speculates(call) /\ Candidates(call) = {}
              /\ SynFail(r) /\ UNCHANGED tierLoaded
           \/ SynFail(r) /\ UNCHANGED tierLoaded    \* the load fails
           \/ /\ Speculates(call) \/ Candidates(call) # {}
              /\ LoaderGet(tierModel[tier])
              /\ synergy' = [synergy EXCEPT ![r].primary = tierModel[tier],
                                ![r].at = IF Speculates(call) THEN "serve" ELSE "done"]
        /\ UNCHANGED <<tierModel, synergyMode, registrar>>

\* A complex task takes the draft model only when it is loaded by now; a
\* batch loads it.  A draft that cannot be had fails the request.
ServeDraft(r) ==
    LET call == synergy[r] IN
    /\ call.at = "serve"
    /\ IF call.hint = "ComplexTask" /\ tierModel["Light"] \notin tierLoaded
       THEN synergy' = [synergy EXCEPT ![r].at = "done"] /\ UNCHANGED tierLoaded
       ELSE synergy' = [synergy EXCEPT ![r].at = "draft"] /\ UNCHANGED tierLoaded
    /\ UNCHANGED <<tierModel, synergyMode, registrar>>
GetDraft(r) ==
    /\ synergy[r].at = "draft"
    /\ \/ SynFail(r) /\ UNCHANGED tierLoaded
       \/ /\ LoaderGet(tierModel["Light"])
          /\ synergy' = [synergy EXCEPT ![r].at = "done", ![r].draft = tierModel["Light"]]
    /\ UNCHANGED <<tierModel, synergyMode, registrar>>

NextSynergyRequest(r) ==
    /\ synergy[r].at \in {"done", "failed"} /\ synergy' = [synergy EXCEPT ![r] = SynIdle]
    /\ UNCHANGED <<tierModel, synergyMode, registrar, tierLoaded>>

LoaderUnloads(id) ==
    /\ id \in tierLoaded /\ tierLoaded' = tierLoaded \ {id}
    /\ UNCHANGED <<tierModel, synergyMode, registrar, synergy>>

\* TierSpeculativePlan::select: speculation needs an active configuration and
\* an acceptance rate above its floor; balanced drafts need a GPU.
BestSingleTier(available, hint) ==
    IF hint \in available THEN hint
    ELSE IF available = {} THEN "Light"
    ELSE FirstOf(<<"Quality", "Balanced", "Light">>, available)
SelectPlan(r, hint, gpu, speculate) ==
    LET best == BestPair(Available)
        pair == IF speculate /\ (best = BalancedQuality => gpu) THEN best ELSE {}
        primary == IF pair = {} THEN BestSingleTier(Available, hint)
                   ELSE FirstOf(<<"Quality", "Balanced">>, pair)
    IN  /\ synergy[r].at = "idle"
        /\ synergy' = [synergy EXCEPT ![r] = [SynIdle EXCEPT !.at = "done", !.mode = pair,
              !.primary = tierModel[primary],
              !.draft = IF pair = {} THEN NoId ELSE tierModel[FirstOf(<<"Light", "Balanced">>, pair)]]]
        /\ UNCHANGED <<tierModel, synergyMode, registrar, tierLoaded>>

SynergyNext ==
    \/ \E g \in Registrars :
          \/ \E tier \in SynTiers, id \in TierIds : RegisterTier(g, tier, id)
          \/ DetectOptimalMode(g)
    \/ \E r \in TierRequests :
          \/ \E hint \in SynHints : SynergyRequest(r, hint)
          \/ \E service \in ServiceTiers : ServiceRequest(r, service)
          \/ \E hint \in SynTiers, gpu, speculate \in BOOLEAN : SelectPlan(r, hint, gpu, speculate)
          \/ ServePrimary(r) \/ ServeDraft(r) \/ GetDraft(r) \/ NextSynergyRequest(r)
    \/ \E id \in TierIds : LoaderUnloads(id)

SynergySpec == SynergyInit /\ [][SynergyNext]_synergyVars

-----------------------------------------------------------------------------
(* Properties *)

\* The mode follows the tiers: racing registrations leave the best pair of
\* the tiers registered, and a request that reads the mode before it locks
\* the tiers finds a model on both sides of the pair, so no unwrap fails
\* (mod.rs, detect_optimal_mode and request).
ModeFollowsTiers ==
    /\ (\A g \in Registrars : registrar[g] = "idle") => synergyMode = BestPair(Available)
    /\ \A r \in TierRequests :
          /\ synergy[r].mode \subseteq Available
          /\ synergy[r].draft # NoId => synergy[r].primary # NoId
=============================================================================
