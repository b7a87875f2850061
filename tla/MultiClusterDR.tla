--------------------------- MODULE MultiClusterDR ---------------------------
(***************************************************************************)
(* The Regional-DR deployer: MultiClusterDROperatorsDeploy.deploy with     *)
(* RBDDRDeployOps.configure_mirror_peer, validate_mirror_peer,             *)
(* validate_csi_sidecar, the s3 metadata store and deploy_dr_policy, on    *)
(* one ACM hub and the managed clusters, through the shared context        *)
(* pointer of the config framework.                                        *)
(*                                                                         *)
(* The clusters are the environment: the mirror peer moves on to           *)
(* ExchangedSecret, the token-exchange agents, the RBD mirror pods, the    *)
(* CSI sidecars and the DR policy become ready, each at its own pace.      *)
(***************************************************************************)
EXTENDS Naturals, Sequences, FiniteSets

CONSTANTS
    NClusters,      \* len(config.clusters), the ACM hub included
    Hub,            \* config.get_acm_index()
    ProfileLists,   \* the s3StoreProfiles name lists the hub config may hold
    NameIn(_, _),   \* cluster_name in profile_name (a substring test)
    SidecarTries,   \* the iterations of the sidecar loop (timeout = 10)
    MaxPolls        \* misses a poll tolerates before its timeout

Clusters == 0..(NClusters - 1)
Managed == Clusters \ {Hub}

ASSUME ConstantsAssumption ==
    /\ NClusters \in Nat /\ Hub \in Clusters
    /\ ProfileLists \subseteq Seq(STRING)
    /\ SidecarTries \in Nat \ {0} /\ MaxPolls \in Nat

(* The steps of deploy(), in the order the code takes them.                *)
Steps == {"init", "ns", "mco", "opgroup", "hub_op", "mp_create", "mp_phase",
          "token", "pool", "mirror_pods", "sidecar", "s3", "policy",
          "policy_wait", "ramen", "done", "failed"}

VARIABLES
    rbd,           \* dr_conf["rbd_dr_scenario"]
    store,         \* dr_conf["dr_metadata_store"]
    profiles,      \* the s3ProfileName list of the Ramen hub config map
    pc,            \* the step of the deployer
    failedAt,      \* the step whose exception ended it, or "none"
    ctx,           \* config.cur_index
    k,             \* the index of the loop over config.clusters
    polls,         \* misses of the current bounded wait
    tries,         \* the countdown of the sidecar loop
    hubReady,      \* the hub operator deployments are available
    mpPhase,       \* phase of the MirrorPeer
    token,         \* the token-exchange-agent pod of a cluster is Running
    mirrored,      \* the cluster's CephBlockPool reports mirroring "true"
    mirrorPod,     \* the cluster runs an rbd-mirror pod
    sidecars,      \* the provisioner reports RBD_SIDECAR_COUNT containers
    policyOk,      \* the DRPolicy condition reason is Succeeded
    tokenSeen,     \* the token agent phase the deployer read per cluster
    podSeen,       \* clusters whose mirror pod and sidecars were validated
    secrets,       \* clusters the s3 secrets were created on
    profileOf,     \* the s3ProfileName written for each managed cluster
    policyCreated, \* the DRPolicy was applied
    ramen          \* the Ramen config carries the policy and automation

cfgVars == <<rbd, store, profiles>>
envVars == <<hubReady, mpPhase, token, mirrored, mirrorPod, sidecars,
             policyOk>>
depVars == <<pc, failedAt, ctx, k, polls, tries, tokenSeen, podSeen,
             secrets, profileOf, policyCreated, ramen>>
vars == <<cfgVars, envVars, depVars>>

NoProfile == "none"

(* The phases of the token-exchange-agent pod; "none": no such pod.        *)
PodPhases == {"none", "Pending", "Running"}

(* deploy_dr_policy: the last profile of the list whose name contains the  *)
(* cluster's name, NoProfile when none does.                               *)
MatchedProfile(c) ==
    LET js == {j \in 1..Len(profiles) : NameIn(c, profiles[j])}
    IN  IF js = {} THEN NoProfile
        ELSE profiles[CHOOSE j \in js : \A j2 \in js : j2 <= j]

Init ==
    /\ rbd \in BOOLEAN
    /\ store \in {"awss3", "mcg"}
    /\ profiles \in ProfileLists
    /\ pc = "init"
    /\ failedAt = "none"
    /\ ctx \in Clusters
    /\ k = 0
    /\ polls = 0
    /\ tries = SidecarTries
    /\ hubReady = {}
    /\ mpPhase = "none"
    /\ token = [c \in Managed |-> "none"]
    /\ mirrored \in [Managed -> BOOLEAN]
    /\ mirrorPod = [c \in Managed |-> FALSE]
    /\ sidecars = [c \in Managed |-> FALSE]
    /\ policyOk = FALSE
    /\ tokenSeen = [c \in Managed |-> "unseen"]
    /\ podSeen = {}
    /\ secrets = {}
    /\ profileOf = [c \in Managed |-> NoProfile]
    /\ policyCreated = FALSE
    /\ ramen = FALSE

-----------------------------------------------------------------------------
(* The deployer.                                                           *)

(* An exception out of deploy(): the deployer stops where it is.           *)
Raise ==
    /\ pc' = "failed"
    /\ failedAt' = pc
    /\ UNCHANGED <<cfgVars, envVars, ctx, k, polls, tries, tokenSeen,
                   podSeen, secrets, profileOf, policyCreated, ramen>>

(* A step that goes on to step nxt or raises (CommandFailed of run_cmd).   *)
Go(s, nxt) ==
    /\ pc = s
    /\ \/ /\ pc' = nxt
          /\ UNCHANGED <<cfgVars, envVars, failedAt, ctx, k, polls, tries,
                         tokenSeen, podSeen, secrets, profileOf,
                         policyCreated, ramen>>
       \/ Raise

(* A bounded wait of step s for cond (wait_for_resource, wait_for_phase,   *)
(* TimeoutSampler): a hit goes on to nxt, a miss samples again, the miss   *)
(* after MaxPolls raises.                                                  *)
Wait(s, cond, nxt) ==
    /\ pc = s
    /\ \/ /\ cond
          /\ pc' = nxt /\ polls' = 0 /\ k' = 0
          /\ UNCHANGED failedAt
       \/ /\ ~cond /\ polls < MaxPolls
          /\ polls' = polls + 1
          /\ UNCHANGED <<pc, failedAt, k>>
       \/ /\ ~cond /\ polls = MaxPolls
          /\ pc' = "failed" /\ failedAt' = s
          /\ UNCHANGED <<polls, k>>
    /\ UNCHANGED <<cfgVars, envVars, ctx, tries, tokenSeen, podSeen,
                   secrets, profileOf, policyCreated, ramen>>

(* __init__ builds the metadata store object, and mcg_meta_obj_store      *)
(* raises NotImplementedError; deploy() then switches to the ACM hub.      *)
Construct ==
    /\ pc = "init"
    /\ IF store = "mcg"
       THEN Raise
       ELSE /\ pc' = "ns" /\ ctx' = Hub
            /\ UNCHANGED <<cfgVars, envVars, failedAt, k, polls, tries,
                           tokenSeen, podSeen, secrets, profileOf,
                           policyCreated, ramen>>

(* run_cmd_multicluster creates the openshift-dr-system namespace.         *)
CreateNamespaces == Go("ns", "mco")

(* deploy_dr_multicluster_orchestrator: subscribe, then wait for the      *)
(* controller deployment to be AVAILABLE.                                  *)
DeployMco == Wait("mco", "mco" \in hubReady, "opgroup")

(* The operator group, created on the hub only.                            *)
CreateOperatorGroup == Go("opgroup", "hub_op")

(* deploy_dr_hub_operator: subscribe, sleep, wait for the CSV to Succeed;  *)
(* then the RBD part when rbd_dr_scenario is set, else the DR policy.      *)
DeployHubOperator ==
    Wait("hub_op", "hub_op" \in hubReady, IF rbd THEN "mp_create" ELSE "policy")

(* configure_mirror_peer: switch_acm_ctx and oc create of the MirrorPeer.  *)
CreateMirrorPeer ==
    /\ pc = "mp_create"
    /\ \/ /\ pc' = "mp_phase" /\ ctx' = Hub
          /\ mpPhase' = "ExchangingSecret"
          /\ UNCHANGED <<cfgVars, hubReady, token, mirrored, mirrorPod,
                         sidecars, policyOk, failedAt, k, polls, tries,
                         tokenSeen, podSeen, secrets, profileOf,
                         policyCreated, ramen>>
       \/ Raise

(* validate_mirror_peer: wait_for_phase("ExchangedSecret").               *)
MirrorPeerPhase ==
    Wait("mp_phase", mpPhase = "ExchangedSecret", "token")

(* validate_mirror_peer, then: for every cluster but the hub, switch_ctx   *)
(* and read the phase of the first token-exchange-agent pod.  No pod is an *)
(* IndexError; a phase other than Running builds a                         *)
(* ResourceWrongStatusException that is never raised.  After the loop,     *)
(* switch_acm_ctx.                                                         *)
TokenLoop ==
    /\ pc = "token"
    /\ \/ /\ k < NClusters /\ k = Hub
          /\ k' = k + 1
          /\ UNCHANGED <<pc, failedAt, ctx, tokenSeen>>
       \/ /\ k < NClusters /\ k # Hub
          /\ ctx' = k
          /\ IF token[k] = "none"
             THEN pc' = "failed" /\ failedAt' = "token"
                  /\ UNCHANGED <<k, tokenSeen>>
             ELSE /\ tokenSeen' = [tokenSeen EXCEPT ![k] = token[k]]
                  /\ k' = k + 1
                  /\ UNCHANGED <<pc, failedAt>>
       \/ /\ k = NClusters
          /\ ctx' = Hub /\ pc' = "pool" /\ k' = 0
          /\ UNCHANGED <<failedAt, tokenSeen>>
    /\ UNCHANGED <<cfgVars, envVars, polls, tries, podSeen, secrets,
                   profileOf, policyCreated, ramen>>

(* The CephBlockPool mirroring query on every cluster but the hub; an      *)
(* answer other than "true" raises ResourceWrongStatusException.           *)
PoolCheck ==
    /\ pc = "pool"
    /\ \/ /\ \A c \in Managed : mirrored[c]
          /\ pc' = "mirror_pods" /\ k' = 0
          /\ UNCHANGED <<cfgVars, envVars, failedAt, ctx, polls, tries,
                         tokenSeen, podSeen, secrets, profileOf,
                         policyCreated, ramen>>
       \/ (\E c \in Managed : ~mirrored[c]) /\ Raise

(* Fault model: the RBD mirror pod count not looked at.                    *)
MirrorPodsUnchecked ==
    /\ pc = "mirror_pods"
    /\ \/ /\ k < NClusters /\ k = Hub
          /\ k' = k + 1
          /\ UNCHANGED <<pc, ctx, tries>>
       \/ /\ k < NClusters /\ k # Hub
          /\ ctx' = k /\ pc' = "sidecar" /\ tries' = SidecarTries
          /\ UNCHANGED k
       \/ /\ k = NClusters
          /\ ctx' = Hub /\ pc' = "s3"
          /\ UNCHANGED <<k, tries>>
    /\ UNCHANGED <<cfgVars, envVars, failedAt, polls, tokenSeen, podSeen,
                   secrets, profileOf, policyCreated, ramen>>

(* The loop over get_non_acm_cluster_config(): switch_ctx, raise           *)
(* PodNotCreated without an rbd-mirror pod, else validate_csi_sidecar.     *)
(* After the loop, switch_acm_ctx.                                         *)
MirrorPods ==
    /\ pc = "mirror_pods"
    /\ \/ /\ k < NClusters /\ k = Hub
          /\ k' = k + 1
          /\ UNCHANGED <<pc, failedAt, ctx, tries>>
       \/ /\ k < NClusters /\ k # Hub
          /\ ctx' = k
          /\ IF mirrorPod[k]
             THEN pc' = "sidecar" /\ tries' = SidecarTries
                  /\ UNCHANGED <<failedAt, k>>
             ELSE pc' = "failed" /\ failedAt' = "mirror_pods"
                  /\ UNCHANGED <<k, tries>>
       \/ /\ k = NClusters
          /\ ctx' = Hub /\ pc' = "s3"
          /\ UNCHANGED <<failedAt, k, tries>>
    /\ UNCHANGED <<cfgVars, envVars, polls, tokenSeen, podSeen, secrets,
                   profileOf, policyCreated, ramen>>

(* Fault model: `while timeout >= 0`, the count runs one below zero.       *)
SidecarPastZero ==
    /\ pc = "sidecar"
    /\ tries >= 0
    /\ \/ /\ sidecars[ctx]
          /\ podSeen' = podSeen \cup {ctx}
          /\ pc' = "mirror_pods" /\ k' = k + 1
          /\ UNCHANGED <<failedAt, tries>>
       \/ /\ ~sidecars[ctx]
          /\ tries' = tries - 1
          /\ IF tries - 1 < 0
             THEN pc' = "failed" /\ failedAt' = "sidecar"
             ELSE UNCHANGED <<pc, failedAt>>
          /\ UNCHANGED <<k, podSeen>>
    /\ UNCHANGED <<cfgVars, envVars, ctx, polls, tokenSeen, secrets,
                   profileOf, policyCreated, ramen>>

(* Fault model: a `continue` after the sleep skips `timeout -= 1`.         *)
SidecarNoCountdown ==
    /\ pc = "sidecar"
    /\ tries > 0
    /\ \/ /\ sidecars[ctx]
          /\ podSeen' = podSeen \cup {ctx}
          /\ pc' = "mirror_pods" /\ k' = k + 1
          /\ UNCHANGED <<failedAt, tries>>
       \/ /\ ~sidecars[ctx]
          /\ UNCHANGED <<pc, failedAt, tries, k, podSeen>>
    /\ UNCHANGED <<cfgVars, envVars, ctx, polls, tokenSeen, secrets,
                   profileOf, policyCreated, ramen>>

(* validate_csi_sidecar: `while timeout:` a matching container count       *)
(* breaks out with timeout still positive; a mismatch sleeps and counts    *)
(* timeout down; at 0 the loop ends and RBDSideCarContainerException is    *)
(* raised.                                                                 *)
Sidecar ==
    /\ pc = "sidecar"
    /\ tries > 0
    /\ \/ /\ sidecars[ctx]
          /\ podSeen' = podSeen \cup {ctx}
          /\ pc' = "mirror_pods" /\ k' = k + 1
          /\ UNCHANGED <<failedAt, tries>>
       \/ /\ ~sidecars[ctx]
          /\ tries' = tries - 1
          /\ IF tries - 1 = 0
             THEN pc' = "failed" /\ failedAt' = "sidecar"
             ELSE UNCHANGED <<pc, failedAt>>
          /\ UNCHANGED <<k, podSeen>>
    /\ UNCHANGED <<cfgVars, envVars, ctx, polls, tokenSeen, secrets,
                   profileOf, policyCreated, ramen>>

(* s3_configure: each s3 secret of the hub created on every cluster but    *)
(* the hub.                                                                *)
S3Configure ==
    /\ pc = "s3"
    /\ \/ /\ secrets' = Managed /\ pc' = "policy"
          /\ UNCHANGED <<cfgVars, envVars, failedAt, ctx, k, polls, tries,
                         tokenSeen, podSeen, profileOf, policyCreated, ramen>>
       \/ Raise

(* deploy_dr_policy: every managed cluster gets the matching s3 profile;   *)
(* one without raises RDRDeploymentException before the DRPolicy is        *)
(* applied.                                                                *)
CreatePolicy ==
    /\ pc = "policy"
    /\ \/ /\ \A c \in Managed : MatchedProfile(c) # NoProfile
          /\ profileOf' = [c \in Managed |-> MatchedProfile(c)]
          /\ policyCreated' = TRUE /\ pc' = "policy_wait"
          /\ UNCHANGED <<cfgVars, envVars, failedAt, ctx, k, polls, tries,
                         tokenSeen, podSeen, secrets, ramen>>
       \/ /\ \E c \in Managed : MatchedProfile(c) = NoProfile
          /\ Raise

(* The TimeoutSampler on the condition reason of the DRPolicy.             *)
PolicyWait == Wait("policy_wait", policyOk, "ramen")

(* update_ramen_config_misc: the policy name and deploymentAutomation-     *)
(* Enabled merged into the Ramen config and applied.                       *)
UpdateRamen ==
    /\ pc = "ramen"
    /\ \/ /\ ramen' = TRUE /\ pc' = "done"
          /\ UNCHANGED <<cfgVars, envVars, failedAt, ctx, k, polls, tries,
                         tokenSeen, podSeen, secrets, profileOf,
                         policyCreated>>
       \/ Raise

Deployer ==
    \/ Construct \/ CreateNamespaces \/ DeployMco \/ CreateOperatorGroup
    \/ DeployHubOperator \/ CreateMirrorPeer \/ MirrorPeerPhase
    \/ TokenLoop \/ PoolCheck \/ MirrorPods \/ Sidecar \/ S3Configure
    \/ CreatePolicy \/ PolicyWait \/ UpdateRamen

-----------------------------------------------------------------------------
(* The clusters.                                                           *)

(* The subscription of the step being waited for becomes available.       *)
HubOperatorUp ==
    /\ pc \in {"mco", "hub_op"} /\ pc \notin hubReady
    /\ hubReady' = hubReady \cup {pc}
    /\ UNCHANGED <<cfgVars, mpPhase, token, mirrored, mirrorPod, sidecars,
                   policyOk, depVars>>

(* The MirrorPeer exchanges the secrets.                                   *)
SecretsExchanged ==
    /\ mpPhase = "ExchangingSecret"
    /\ mpPhase' = "ExchangedSecret"
    /\ UNCHANGED <<cfgVars, hubReady, token, mirrored, mirrorPod, sidecars,
                   policyOk, depVars>>

(* Once the mirror peer exists, the token agent of a managed cluster is    *)
(* scheduled and starts, and mirroring brings up its rbd-mirror pod and    *)
(* the CSI sidecars.                                                       *)
ClusterProgress(c) ==
    /\ mpPhase # "none"
    /\ \/ /\ token[c] # "Running"
          /\ token' = [token EXCEPT ![c] =
                          IF @ = "none" THEN "Pending" ELSE "Running"]
          /\ UNCHANGED <<mirrorPod, sidecars>>
       \/ /\ ~mirrorPod[c] /\ mirrorPod' = [mirrorPod EXCEPT ![c] = TRUE]
          /\ UNCHANGED <<token, sidecars>>
       \/ /\ ~sidecars[c] /\ sidecars' = [sidecars EXCEPT ![c] = TRUE]
          /\ UNCHANGED <<token, mirrorPod>>
    /\ UNCHANGED <<cfgVars, hubReady, mpPhase, mirrored, policyOk, depVars>>

(* The DR policy is validated.                                             *)
PolicyValidated ==
    /\ policyCreated /\ ~policyOk
    /\ policyOk' = TRUE
    /\ UNCHANGED <<cfgVars, hubReady, mpPhase, token, mirrored, mirrorPod,
                   sidecars, depVars>>

Environment ==
    \/ HubOperatorUp \/ SecretsExchanged \/ PolicyValidated
    \/ \E c \in Managed : ClusterProgress(c)

Next == Deployer \/ Environment

(* deploy() is one sequential thread; the clusters make no promise of      *)
(* progress (the bounded waits cover them).                                *)
Spec == Init /\ [][Next]_vars /\ WF_vars(Deployer)

-----------------------------------------------------------------------------
(* Properties.                                                             *)

TypeOK ==
    /\ rbd \in BOOLEAN /\ store \in {"awss3", "mcg"} /\ profiles \in ProfileLists
    /\ pc \in Steps /\ failedAt \in Steps \cup {"none"}
    /\ ctx \in Clusters /\ k \in 0..NClusters
    /\ polls \in 0..MaxPolls /\ tries \in 0..SidecarTries
    /\ hubReady \subseteq {"mco", "hub_op"}
    /\ mpPhase \in {"none", "ExchangingSecret", "ExchangedSecret"}
    /\ token \in [Managed -> PodPhases]
    /\ mirrored \in [Managed -> BOOLEAN]
    /\ mirrorPod \in [Managed -> BOOLEAN]
    /\ sidecars \in [Managed -> BOOLEAN]
    /\ policyOk \in BOOLEAN
    /\ tokenSeen \in [Managed -> PodPhases \cup {"unseen"}]
    /\ podSeen \subseteq Managed /\ secrets \subseteq Managed
    /\ profileOf \in [Managed -> {NoProfile} \cup
                                 UNION {{l[j] : j \in 1..Len(l)} :
                                        l \in ProfileLists}]
    /\ policyCreated \in BOOLEAN /\ ramen \in BOOLEAN

(* configure_mirror_peer: in an RBD deployment no DRPolicy is applied      *)
(* before every managed cluster was seen with mirroring "true", an         *)
(* rbd-mirror pod and the full set of CSI sidecars, and got the s3         *)
(* secrets (the spec's ordering of the RBD fan-out before the policy).     *)
ValidatedBeforePolicy ==
    policyCreated /\ rbd =>
        \A c \in Managed :
            /\ c \in podSeen /\ c \in secrets
            /\ mirrored[c] /\ mirrorPod[c] /\ sidecars[c]

(* deploy() always ends, done or with an exception: every wait and the     *)
(* sidecar loop are bounded.                                               *)
Terminates == <>(pc \in {"done", "failed"})

(* Each managed cluster of the DRPolicy gets an s3 profile of its own.     *)
ProfilesDistinct ==
    policyCreated =>
        \A c1, c2 \in Managed : c1 # c2 => profileOf[c1] # profileOf[c2]

=============================================================================
