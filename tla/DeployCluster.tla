---------------------------- MODULE DeployCluster ----------------------------
(***************************************************************************)
(* The top-level sequencer Deployment.deploy_cluster with the storage      *)
(* deploy of do_deploy_ocs and its per-cluster sub-state machine           *)
(* Deployment.deploy_ocs, over the cluster context registry of the config  *)
(* framework (switch_ctx / reset_ctx), which every call targets.           *)
(*                                                                         *)
(* Each phase is one action with its skip condition and its failure: a    *)
(* remote step either returns or raises, and an exception that nothing     *)
(* catches ends the run in "failed", with the context left where it was.   *)
(* What the control plane answers (an existing CephCluster, the Ceph       *)
(* health) is chosen nondeterministically at the step that reads it.       *)
(***************************************************************************)
EXTENDS Naturals

CONSTANT MaxClusters    \* the most clusters a configuration names

ASSUME MaxClustersAssumption == MaxClusters \in Nat \ {0}

Phases == {"ocp", "netsplit", "acm", "lvmo", "submariner", "ocs", "verify",
           "rdr", "done", "failed"}

(* The steps of deploy_ocs on one cluster; "next" is the loop head.        *)
OcsSteps == {"next", "check", "install", "pods", "post", "health",
             "skew_retry", "patch_sc"}

(* What ceph_health_check reports: HEALTH_OK, a clock-skew warning, or any *)
(* other unhealthy state.                                                  *)
HealthResults == {"unchecked", "ok", "skew", "other"}

VARIABLES
    ncl,          \* config.nclusters
    acm,          \* config.get_acm_index()
    flags,        \* the skip and feature flags of the configuration
    cephExists,   \* a CephCluster existed on the cluster before the run
    phase,        \* the phase of deploy_cluster
    failedIn,     \* the phase whose exception ended the run, or "none"
    ctx,          \* config.cur_index, the active cluster context
    i,            \* the index of the loop of the current phase
    step,         \* the step of deploy_ocs on the current cluster
    created,      \* the run created storage resources on the cluster
    healthSeen,   \* what the first health check reported on the cluster
    verified      \* clusters ocs_install_verification ran on

cfgVars == <<ncl, acm, flags, cephExists>>
vars == <<cfgVars, phase, failedIn, ctx, i, step, created, healthSeen,
          verified>>

Clusters == 0..(MaxClusters - 1)

Flags == {"skip_ocp", "network_split", "deploy_acm", "install_lvmo",
          "skip_submariner", "skip_ocs", "external_mode", "mcg_only"}

multicluster == ncl > 1

(* A Python bool used as an int: range(config.multicluster).               *)
BoolToInt(b) == IF b THEN 1 ELSE 0

(* The clusters deploy_ocs runs on: every cluster but the ACM hub.         *)
NonHub == {c \in 0..(ncl - 1) : ~(multicluster /\ c = acm)}

(* reset_ctx: back to the default context, the one of the process start.  *)
DefaultCtx == 0

Init ==
    /\ ncl \in 1..MaxClusters
    /\ acm \in 0..(ncl - 1)
    /\ flags \in SUBSET Flags
    /\ cephExists \in [Clusters -> BOOLEAN]
    /\ phase = "ocp"
    /\ failedIn = "none"
    /\ ctx = DefaultCtx
    /\ i = 0
    /\ step = "next"
    /\ created = [c \in Clusters |-> FALSE]
    /\ healthSeen = [c \in Clusters |-> "unchecked"]
    /\ verified = {}

(* An exception nothing catches: deploy_cluster stops with the context    *)
(* where it is.                                                            *)
Raise ==
    /\ phase' = "failed"
    /\ failedIn' = phase
    /\ UNCHANGED <<cfgVars, ctx, i, step, created, healthSeen, verified>>

(* A phase that runs when its condition holds, and then returns or raises. *)
Phase(p, runs, nextPhase) ==
    /\ phase = p
    /\ \/ /\ phase' = nextPhase
          /\ UNCHANGED <<cfgVars, failedIn, ctx, i, step, created,
                         healthSeen, verified>>
       \/ runs /\ Raise

(* do_deploy_ocp: skipped by skip_ocp_deployment; a running cluster is a  *)
(* no-op (is_cluster_running); a failed install raises.                    *)
DeployOcp == Phase("ocp", "skip_ocp" \notin flags, "netsplit")

(* setup_netsplit, with get_arbiter_location on an arbiter deployment.     *)
NetworkSplit == Phase("netsplit", "network_split" \in flags, "acm")

(* deploy_acm_hub when deploy_acm_hub_cluster is set on OCP 4.9 or later. *)
AcmHub == Phase("acm", "deploy_acm" \in flags, "lvmo")

(* do_deploy_lvmo: deploy_lvmo returns at once unless install_lvmo.        *)
Lvmo == Phase("lvmo", "install_lvmo" \in flags, "submariner")

(* do_deploy_submariner: only on multicluster, unless skipped.             *)
SubmarinerPhase ==
    Phase("submariner", multicluster /\ "skip_submariner" \notin flags, "ocs")

-----------------------------------------------------------------------------
(* do_deploy_ocs, first loop: for i in range(config.nclusters), skipping   *)
(* the ACM hub on multicluster, switch_ctx(i) and deploy_ocs; after the    *)
(* loop reset_ctx.  Skipped wholesale by skip_ocs_deployment.              *)

(* The loop with its end bound as a parameter: range(bound).               *)
OcsLoopUpTo(bound) ==
    /\ phase = "ocs" /\ step = "next"
    /\ \/ /\ "skip_ocs" \in flags
          /\ phase' = "rdr"
          /\ UNCHANGED <<cfgVars, failedIn, ctx, i, step, created,
                         healthSeen, verified>>
       \/ /\ "skip_ocs" \notin flags
          /\ i < bound /\ multicluster /\ acm = i
          /\ i' = i + 1
          /\ UNCHANGED <<cfgVars, phase, failedIn, ctx, step, created,
                         healthSeen, verified>>
       \/ /\ "skip_ocs" \notin flags
          /\ i < bound /\ ~(multicluster /\ acm = i)
          /\ ctx' = i /\ step' = "check"
          /\ UNCHANGED <<cfgVars, phase, failedIn, i, created, healthSeen,
                         verified>>
       \/ /\ "skip_ocs" \notin flags
          /\ i >= bound
          /\ ctx' = DefaultCtx /\ i' = 0
          /\ phase' = IF multicluster THEN "verify" ELSE "rdr"
          /\ UNCHANGED <<cfgVars, failedIn, step, created, healthSeen,
                         verified>>

(* Fault model: the loop runs one index past the configured clusters.     *)
OcsLoopPastEnd == OcsLoopUpTo(ncl + 1)

(* Fault model: the loop leaves out the last cluster.                      *)
OcsLoopStopsEarly == OcsLoopUpTo(ncl - 1)

OcsLoop == OcsLoopUpTo(ncl)

(* deploy_ocs returns to the loop, which goes on with the next index.      *)
OcsReturn ==
    /\ step' = "next" /\ i' = i + 1
    /\ UNCHANGED <<cfgVars, phase, failedIn, ctx, created, healthSeen,
                   verified>>

(* A step of deploy_ocs on the active cluster that returns (going on to    *)
(* step nxt) or raises.                                                    *)
OcsStep(s, nxt) ==
    /\ phase = "ocs" /\ step = s
    /\ \/ /\ step' = nxt
          /\ UNCHANGED <<cfgVars, phase, failedIn, ctx, i, created,
                         healthSeen, verified>>
       \/ Raise

(* set_registry_to_managed_state, which may raise, then the CephCluster    *)
(* lookup: a listed CephCluster makes deploy_ocs return at once; an empty  *)
(* list (IndexError) and a failed "oc get" (CommandFailed) are caught      *)
(* alike and go on to the installation, whether a CephCluster exists or    *)
(* not.                                                                    *)
OcsCheck ==
    /\ phase = "ocs" /\ step = "check"
    /\ \/ /\ cephExists[ctx]
          /\ OcsReturn
       \/ /\ step' = "install"
          /\ UNCHANGED <<cfgVars, phase, failedIn, ctx, i, created,
                         healthSeen, verified>>
       \/ Raise

(* deploy_with_external_mode or deploy_ocs_via_operator create the storage *)
(* resources on the active cluster; an MCG-only deployment runs its checks *)
(* and returns.                                                            *)
OcsInstall ==
    /\ phase = "ocs" /\ step = "install"
    /\ \/ /\ created' = [created EXCEPT ![ctx] = TRUE]
          /\ IF "external_mode" \notin flags /\ "mcg_only" \in flags
             THEN step' = "next" /\ i' = i + 1
             ELSE /\ step' = IF "external_mode" \in flags THEN "post"
                             ELSE "pods"
                  /\ UNCHANGED i
          /\ UNCHANGED <<cfgVars, phase, failedIn, ctx, healthSeen, verified>>
       \/ Raise

(* The pod waits (mon, mgr, osd, odf-console, tools), the PVC and PDB      *)
(* validations and the CephFS check, whose failure is only logged.         *)
OcsPods == OcsStep("pods", "post")

(* Monitoring and registry backends, console plugin.                       *)
OcsPost == OcsStep("post", "health")

(* ceph_health_check(tries=30): HEALTH_OK goes on; a CephHealthException   *)
(* with "clock skew detected" in its text leads to the NTP fix and a       *)
(* second check; any other CephHealthException is caught, logged as a      *)
(* warning and dropped.  Other exceptions of the check propagate.          *)
OcsHealth ==
    /\ phase = "ocs" /\ step = "health"
    /\ \/ \E h \in {"ok", "skew", "other"} :
             /\ healthSeen' = [healthSeen EXCEPT ![ctx] = h]
             /\ step' = IF h = "skew" THEN "skew_retry" ELSE "patch_sc"
             /\ UNCHANGED <<cfgVars, phase, failedIn, ctx, i, created,
                            verified>>
       \/ Raise

(* update_ntp_compute_nodes on vSphere, then                               *)
(* assert ceph_health_check(tries=60), which raises when it fails.         *)
OcsSkewRetry == OcsStep("skew_retry", "patch_sc")

(* patch_default_sc_to_non_default, the last step of deploy_ocs.           *)
OcsPatchSc ==
    /\ phase = "ocs" /\ step = "patch_sc"
    /\ \/ OcsReturn
       \/ Raise

DeployOcs ==
    \/ OcsCheck \/ OcsInstall \/ OcsPods \/ OcsPost \/ OcsHealth
    \/ OcsSkewRetry \/ OcsPatchSc

(* do_deploy_ocs, second loop, on multicluster only: for i in              *)
(* range(config.multicluster), skipping the ACM hub, switch_ctx(i) and     *)
(* ocs_install_verification; then reset_ctx.                               *)
Verify ==
    /\ phase = "verify"
    /\ \/ /\ i < BoolToInt(multicluster) /\ acm = i
          /\ i' = i + 1
          /\ UNCHANGED <<cfgVars, phase, failedIn, ctx, step, created,
                         healthSeen, verified>>
       \/ /\ i < BoolToInt(multicluster) /\ acm # i
          /\ ctx' = i
          /\ \/ /\ verified' = verified \cup {i}
                /\ i' = i + 1
                /\ UNCHANGED <<phase, failedIn>>
             \/ /\ phase' = "failed" /\ failedIn' = "verify"
                /\ UNCHANGED <<i, verified>>
          /\ UNCHANGED <<cfgVars, step, created, healthSeen>>
       \/ /\ i >= BoolToInt(multicluster)
          /\ ctx' = DefaultCtx /\ i' = 0 /\ phase' = "rdr"
          /\ UNCHANGED <<cfgVars, failedIn, step, created, healthSeen,
                         verified>>

(* do_deploy_rdr: on multicluster MultiClusterDROperatorsDeploy.deploy,    *)
(* which switches to the ACM hub first and ends there, or raises from      *)
(* whichever cluster context it had switched to.                           *)
Rdr ==
    /\ phase = "rdr"
    /\ \/ /\ ~multicluster
          /\ phase' = "done"
          /\ UNCHANGED ctx
       \/ /\ multicluster
          /\ phase' = "done" /\ ctx' = acm
       \/ /\ multicluster
          /\ phase' = "failed"
          /\ ctx' \in 0..(ncl - 1)
    /\ failedIn' = IF phase' = "failed" THEN "rdr" ELSE failedIn
    /\ UNCHANGED <<cfgVars, i, step, created, healthSeen, verified>>

Next ==
    \/ DeployOcp \/ NetworkSplit \/ AcmHub \/ Lvmo \/ SubmarinerPhase
    \/ OcsLoop \/ DeployOcs \/ Verify \/ Rdr

(* deploy_cluster is one sequential thread: it takes its next step as long *)
(* as it has one.                                                          *)
Spec == Init /\ [][Next]_vars /\ WF_vars(Next)

-----------------------------------------------------------------------------
(* PROPERTIES                                                              *)

TypeOK ==
    /\ ncl \in 1..MaxClusters
    /\ acm \in Clusters
    /\ flags \subseteq Flags
    /\ cephExists \in [Clusters -> BOOLEAN]
    /\ phase \in Phases
    /\ failedIn \in Phases \cup {"none"}
    /\ ctx \in Clusters
    /\ i \in 0..MaxClusters
    /\ step \in OcsSteps
    /\ created \in [Clusters -> BOOLEAN]
    /\ healthSeen \in [Clusters -> HealthResults]
    /\ verified \subseteq Clusters

DoneMeansAllDeployed ==
    (phase = "done" /\ "skip_ocs" \notin flags)
        => \A c \in NonHub : created[c] \/ cephExists[c]

(* The spec's context-restore rule for fan-out loops: when an exception    *)
(* ends a loop of do_deploy_ocs, the context is back at the one before     *)
(* the loop.  The loop re-raises without reset_ctx.                        *)
CtxRestoredAfterOcsFailure ==
    failedIn \in {"ocs", "verify"} => ctx = DefaultCtx

(* The spec's rule for the health poll of deploy_ocs: every health failure *)
(* but clock skew is fatal, so a run never ends done after a check         *)
(* reported another unhealthy state.                                       *)
DoneMeansHealthy ==
    phase = "done" => \A c \in Clusters : healthSeen[c] # "other"

=============================================================================
