-------------------------- MODULE MCAgentReconcile --------------------------
(* The Agent controller with two kinds that carry the config, and either one *)
(* that does not, or a ConfigMap an earlier release left behind.             *)
EXTENDS AgentReconcile, TLC

TwoKinds      == {"Secret", "Deployment"}
WithLeftover  == TwoKinds \cup {"ConfigMap"}
ThreeKinds    == TwoKinds \cup {"ServiceAccount"}
MCConfigKinds == {"Secret", "Deployment"}
ThreeManifest == <<"Secret", "ServiceAccount", "Deployment">>
TwoManifest   == <<"Secret", "Deployment">>
SpecSymmetry  == Permutations(Specs)

\* No action reads pods, which only serve PodsRunConfig; with upsertLock held
\* nothing can be done that cannot be done with it free.
WithoutPods   == <<agent, model, obj, ver, db, cache, up, dirty, worker, skipped, bounds>>
=============================================================================
