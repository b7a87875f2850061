------------------------ MODULE MultiClusterDRProofs -------------------------
(***************************************************************************)
(* Proofs about the Regional-DR deployer, for every number of clusters,   *)
(* hub index, list of s3 profiles, substring test and sidecar count that  *)
(* ConstantsAssumption allows, and against every behaviour of the         *)
(* clusters: the state keeps its types, no DRPolicy of an RBD deployment  *)
(* is applied before every managed cluster was validated, and none        *)
(* without a matching s3 profile for each managed cluster.                *)
(***************************************************************************)
EXTENDS MultiClusterDR, OrderLemmas, TLAPS

\* The steps of the RBD part of deploy(), from the mirror peer to the s3
\* secrets; deploy() reaches them only when rbd_dr_scenario is set.
RbdSteps == {"mp_create", "mp_phase", "token", "pool", "mirror_pods",
             "sidecar", "s3"}

\* The steps a run can be at once the DRPolicy was applied.
PostPolicy == {"policy_wait", "ramen", "done", "failed"}

(***************************************************************************)
(* The inductive invariant.  The validation of a managed cluster is       *)
(* recorded in podSeen by validate_csi_sidecar, which the loop reaches    *)
(* only after the cluster's rbd-mirror pod was seen; the clusters never   *)
(* take back a pod or a sidecar, so what was validated stays true.  The   *)
(* loop over the clusters has validated every managed cluster below its   *)
(* index, hence all of them when it ends, and the s3 step and the policy  *)
(* step are reached only from there in an RBD deployment.  The DRPolicy   *)
(* is applied once, and nothing after it changes the profiles.            *)
(***************************************************************************)
\* The conjuncts of the inductive invariant, one per fact.
SidecarAt ==
    pc = "sidecar" => ctx \in Managed /\ k = ctx /\ tries > 0 /\ mirrorPod[ctx]
PodsValid == \A c \in podSeen : mirrorPod[c] /\ sidecars[c]
RbdOnly == pc \in RbdSteps => rbd
MirroredAll ==
    pc \in {"mirror_pods", "sidecar", "s3", "policy"} /\ rbd =>
        \A c \in Managed : mirrored[c]
LoopValidated ==
    pc \in {"mirror_pods", "sidecar"} =>
        \A c \in Managed : c < k => c \in podSeen
S3Ready == pc = "s3" => Managed \subseteq podSeen
PolicyReady == pc = "policy" /\ rbd => Managed \subseteq podSeen /\ secrets = Managed
PolicyOnce == policyCreated => pc \in PostPolicy

Rest ==
    /\ SidecarAt /\ PodsValid /\ RbdOnly /\ MirroredAll /\ LoopValidated
    /\ S3Ready /\ PolicyReady /\ PolicyOnce
    /\ ValidatedBeforePolicy

IInv == TypeOK /\ Rest

USE ConstantsAssumption DEF Clusters, Managed

\* deploy_dr_policy's choice: NoProfile, or a profile of the list whose
\* name contains the cluster's name.
LEMMA MatchedProfileIn ==
    ASSUME profiles \in Seq(STRING), NEW c
    PROVE  \/ MatchedProfile(c) = NoProfile
           \/ \E j \in 1..Len(profiles) :
                 MatchedProfile(c) = profiles[j] /\ NameIn(c, profiles[j])
<1> DEFINE js == {j \in 1..Len(profiles) : NameIn(c, profiles[j])}
<1>1. CASE js = {}
  BY <1>1 DEF MatchedProfile
<1>2. CASE js # {}
  <2>0. Len(profiles) \in Nat /\ js \in SUBSET (0..Len(profiles))
    OBVIOUS
  <2>1. PICK j0 \in js : \A j2 \in js : j2 <= j0
    BY <1>2, <2>0, NatMaxExists
  <2>2. MatchedProfile(c) = profiles[CHOOSE j \in js : \A j2 \in js : j2 <= j]
    BY <1>2 DEF MatchedProfile
  <2>3. (CHOOSE j \in js : \A j2 \in js : j2 <= j) \in js
    BY <2>1, Zenon
  <2>. QED
    BY <2>2, <2>3
<1>. QED
  BY <1>1, <1>2

\* The definitions the proofs of the conjuncts expand.
USE DEF Rest, SidecarAt, PodsValid, RbdOnly, MirroredAll, LoopValidated,
        S3Ready, PolicyReady, PolicyOnce, ValidatedBeforePolicy,
        RbdSteps, PostPolicy, Steps, PodPhases

LEMMA InitIInv == Init => IInv
<1> SUFFICES ASSUME Init PROVE IInv
  OBVIOUS
<1> USE DEF IInv, TypeOK
<1>1. /\ rbd \in BOOLEAN /\ store \in {"awss3", "mcg"}
      /\ profiles \in ProfileLists /\ pc \in Steps
      /\ failedAt \in Steps \cup {"none"} /\ ctx \in Clusters
      /\ k \in 0..NClusters /\ polls \in 0..MaxPolls
      /\ tries \in 0..SidecarTries
  BY DEF Init
<1>2. /\ hubReady \subseteq {"mco", "hub_op"}
      /\ mpPhase \in {"none", "ExchangingSecret", "ExchangedSecret"}
      /\ token \in [Managed -> PodPhases]
      /\ mirrored \in [Managed -> BOOLEAN]
      /\ mirrorPod \in [Managed -> BOOLEAN]
      /\ sidecars \in [Managed -> BOOLEAN]
      /\ policyOk \in BOOLEAN
      /\ tokenSeen \in [Managed -> PodPhases \cup {"unseen"}]
  BY DEF Init
<1>3. /\ podSeen = {} /\ secrets = {} /\ policyCreated = FALSE
      /\ ramen = FALSE /\ pc = "init"
      /\ profileOf \in [Managed -> {NoProfile}]
  BY DEF Init
<1>. QED
  BY <1>1, <1>2, <1>3

\* An exception ends the run where it is and changes nothing else.
LEMMA RaiseKeeps ==
    ASSUME IInv, Raise, pc \notin PostPolicy
    PROVE  IInv'
<1>1. TypeOK'
  BY DEF IInv, TypeOK, Raise, cfgVars, envVars
<1>2. Rest'
  BY DEF IInv, Raise, cfgVars, envVars
<1>. QED
  BY <1>1, <1>2 DEF IInv

\* A step that issues one command and goes on to the next step.
LEMMA GoKeeps ==
    ASSUME IInv, NEW st, NEW nxt \in Steps, Go(st, nxt),
           st \notin PostPolicy \cup RbdSteps \cup {"policy", "sidecar"},
           nxt \notin {"mirror_pods", "sidecar", "s3", "policy"} \cup PostPolicy,
           nxt \in RbdSteps => rbd
    PROVE  IInv'
<1>1. CASE pc' = nxt
           /\ UNCHANGED <<cfgVars, envVars, failedAt, ctx, k, polls, tries,
                          tokenSeen, podSeen, secrets, profileOf,
                          policyCreated, ramen>>
  <2>1. TypeOK'
    BY <1>1 DEF IInv, TypeOK, cfgVars, envVars
  <2>2. Rest'
    BY <1>1 DEF IInv, Go, cfgVars, envVars
  <2>. QED
    BY <2>1, <2>2 DEF IInv
<1>. QED
  BY <1>1, RaiseKeeps DEF Go

\* A bounded wait outside the loops: a hit goes on, a miss counts, the
\* last miss fails.
LEMMA WaitKeeps ==
    ASSUME IInv, NEW st, NEW cond, NEW nxt \in Steps, Wait(st, cond, nxt),
           st \in {"mco", "hub_op", "mp_phase", "policy_wait"},
           nxt \notin {"mirror_pods", "sidecar", "s3"},
           nxt = "policy" => ~rbd,
           nxt \in RbdSteps => rbd,
           st \in PostPolicy => nxt \in PostPolicy
    PROVE  IInv'
<1>1. /\ pc = st
      /\ UNCHANGED <<cfgVars, envVars, ctx, tries, tokenSeen, podSeen,
                     secrets, profileOf, policyCreated, ramen>>
  BY DEF Wait
<1>2. CASE pc' = nxt /\ polls' = 0 /\ k' = 0 /\ UNCHANGED failedAt
  <2>1. TypeOK'
    BY <1>1, <1>2 DEF IInv, TypeOK, cfgVars, envVars
  <2>2. Rest'
    BY <1>1, <1>2 DEF IInv, cfgVars, envVars
  <2>. QED
    BY <2>1, <2>2 DEF IInv
<1>3. CASE polls < MaxPolls /\ polls' = polls + 1 /\ UNCHANGED <<pc, failedAt, k>>
  <2>1. TypeOK'
    BY <1>1, <1>3 DEF IInv, TypeOK, cfgVars, envVars
  <2>2. Rest'
    BY <1>1, <1>3 DEF IInv, cfgVars, envVars
  <2>. QED
    BY <2>1, <2>2 DEF IInv
<1>4. CASE pc' = "failed" /\ failedAt' = st /\ UNCHANGED <<polls, k>>
  <2>1. TypeOK'
    BY <1>1, <1>4 DEF IInv, TypeOK, cfgVars, envVars
  <2>2. Rest'
    BY <1>1, <1>4 DEF IInv, cfgVars, envVars
  <2>. QED
    BY <2>1, <2>2 DEF IInv
<1>. QED
  BY <1>2, <1>3, <1>4 DEF Wait

LEMMA ConstructKeeps ==
    ASSUME IInv, Construct PROVE IInv'
<1>1. CASE store = "mcg"
  BY <1>1, RaiseKeeps DEF Construct
<1>2. CASE store # "mcg"
  <2>1. /\ pc = "init" /\ pc' = "ns" /\ ctx' = Hub
        /\ UNCHANGED <<cfgVars, envVars, failedAt, k, polls, tries,
                       tokenSeen, podSeen, secrets, profileOf,
                       policyCreated, ramen>>
    BY <1>2 DEF Construct
  <2>2. TypeOK'
    BY <2>1 DEF IInv, TypeOK, cfgVars, envVars
  <2>3. Rest'
    BY <2>1 DEF IInv, cfgVars, envVars
  <2>. QED
    BY <2>2, <2>3 DEF IInv
<1>. QED
  BY <1>1, <1>2

LEMMA CreateMirrorPeerKeeps ==
    ASSUME IInv, CreateMirrorPeer PROVE IInv'
<1>1. CASE /\ pc = "mp_create" /\ pc' = "mp_phase" /\ ctx' = Hub
           /\ mpPhase' = "ExchangingSecret"
           /\ UNCHANGED <<cfgVars, hubReady, token, mirrored, mirrorPod,
                          sidecars, policyOk, failedAt, k, polls, tries,
                          tokenSeen, podSeen, secrets, profileOf,
                          policyCreated, ramen>>
  <2>1. TypeOK'
    BY <1>1 DEF IInv, TypeOK, cfgVars
  <2>2. Rest'
    BY <1>1 DEF IInv, cfgVars
  <2>. QED
    BY <2>1, <2>2 DEF IInv
<1>. QED
  BY <1>1, RaiseKeeps DEF CreateMirrorPeer

LEMMA PoolCheckKeeps ==
    ASSUME IInv, PoolCheck PROVE IInv'
<1>1. CASE /\ pc = "pool" /\ \A c \in Managed : mirrored[c]
           /\ pc' = "mirror_pods" /\ k' = 0
           /\ UNCHANGED <<cfgVars, envVars, failedAt, ctx, polls, tries,
                          tokenSeen, podSeen, secrets, profileOf,
                          policyCreated, ramen>>
  <2>1. TypeOK'
    BY <1>1 DEF IInv, TypeOK, cfgVars, envVars
  <2>2. Rest'
    BY <1>1 DEF IInv, cfgVars, envVars
  <2>. QED
    BY <2>1, <2>2 DEF IInv
<1>. QED
  BY <1>1, RaiseKeeps DEF PoolCheck

\* The token loop changes the context, the index and what it read only.
LEMMA TokenLoopKeeps ==
    ASSUME IInv, TokenLoop PROVE IInv'
<1>1. /\ pc = "token"
      /\ UNCHANGED <<cfgVars, envVars, polls, tries, podSeen, secrets,
                     profileOf, policyCreated, ramen>>
  BY DEF TokenLoop
<1>2. CASE k < NClusters /\ k = Hub /\ k' = k + 1
           /\ UNCHANGED <<pc, failedAt, ctx, tokenSeen>>
  <2>1. TypeOK'
    BY <1>1, <1>2 DEF IInv, TypeOK, cfgVars, envVars
  <2>2. Rest'
    BY <1>1, <1>2 DEF IInv, cfgVars, envVars
  <2>. QED
    BY <2>1, <2>2 DEF IInv
<1>3. CASE k < NClusters /\ k # Hub /\ ctx' = k /\ token[k] = "none"
           /\ pc' = "failed" /\ failedAt' = "token"
           /\ UNCHANGED <<k, tokenSeen>>
  <2>1. TypeOK'
    BY <1>1, <1>3 DEF IInv, TypeOK, cfgVars, envVars
  <2>2. Rest'
    BY <1>1, <1>3 DEF IInv, cfgVars, envVars
  <2>. QED
    BY <2>1, <2>2 DEF IInv
<1>4. CASE k < NClusters /\ k # Hub /\ ctx' = k /\ token[k] # "none"
           /\ tokenSeen' = [tokenSeen EXCEPT ![k] = token[k]]
           /\ k' = k + 1 /\ UNCHANGED <<pc, failedAt>>
  <2>1. TypeOK'
    BY <1>1, <1>4 DEF IInv, TypeOK, cfgVars, envVars
  <2>2. Rest'
    BY <1>1, <1>4 DEF IInv, cfgVars, envVars
  <2>. QED
    BY <2>1, <2>2 DEF IInv
<1>5. CASE k = NClusters /\ ctx' = Hub /\ pc' = "pool" /\ k' = 0
           /\ UNCHANGED <<failedAt, tokenSeen>>
  <2>1. TypeOK'
    BY <1>1, <1>5 DEF IInv, TypeOK, cfgVars, envVars
  <2>2. Rest'
    BY <1>1, <1>5 DEF IInv, cfgVars, envVars
  <2>. QED
    BY <2>1, <2>2 DEF IInv
<1>. QED
  BY <1>2, <1>3, <1>4, <1>5 DEF TokenLoop

\* The loop over the managed clusters enters validate_csi_sidecar for a
\* cluster only when its rbd-mirror pod was seen.
LEMMA MirrorPodsKeeps ==
    ASSUME IInv, MirrorPods PROVE IInv'
<1>1. /\ pc = "mirror_pods"
      /\ UNCHANGED <<cfgVars, envVars, polls, tokenSeen, podSeen, secrets,
                     profileOf, policyCreated, ramen>>
  BY DEF MirrorPods
<1>2. CASE k < NClusters /\ k = Hub /\ k' = k + 1
           /\ UNCHANGED <<pc, failedAt, ctx, tries>>
  <2>1. TypeOK'
    BY <1>1, <1>2 DEF IInv, TypeOK, cfgVars, envVars
  <2>2. Rest'
    BY <1>1, <1>2 DEF IInv, cfgVars, envVars
  <2>. QED
    BY <2>1, <2>2 DEF IInv
<1>3. CASE k < NClusters /\ k # Hub /\ ctx' = k /\ mirrorPod[k]
           /\ pc' = "sidecar" /\ tries' = SidecarTries
           /\ UNCHANGED <<failedAt, k>>
  <2>1. TypeOK'
    BY <1>1, <1>3 DEF IInv, TypeOK, cfgVars, envVars
  <2>2. Rest'
    BY <1>1, <1>3 DEF IInv, TypeOK, cfgVars, envVars
  <2>. QED
    BY <2>1, <2>2 DEF IInv
<1>4. CASE k < NClusters /\ k # Hub /\ ctx' = k /\ ~mirrorPod[k]
           /\ pc' = "failed" /\ failedAt' = "mirror_pods"
           /\ UNCHANGED <<k, tries>>
  <2>1. TypeOK'
    BY <1>1, <1>4 DEF IInv, TypeOK, cfgVars, envVars
  <2>2. Rest'
    BY <1>1, <1>4 DEF IInv, cfgVars, envVars
  <2>. QED
    BY <2>1, <2>2 DEF IInv
<1>5. CASE k = NClusters /\ ctx' = Hub /\ pc' = "s3"
           /\ UNCHANGED <<failedAt, k, tries>>
  <2>1. TypeOK'
    BY <1>1, <1>5 DEF IInv, TypeOK, cfgVars, envVars
  <2>2. Rest'
    BY <1>1, <1>5 DEF IInv, cfgVars, envVars
  <2>. QED
    BY <2>1, <2>2 DEF IInv
<1>. QED
  BY <1>2, <1>3, <1>4, <1>5 DEF MirrorPods

\* validate_csi_sidecar records a cluster only when its sidecars are up.
LEMMA SidecarKeeps ==
    ASSUME IInv, Sidecar PROVE IInv'
<1>1. /\ pc = "sidecar" /\ tries > 0
      /\ UNCHANGED <<cfgVars, envVars, ctx, polls, tokenSeen, secrets,
                     profileOf, policyCreated, ramen>>
  BY DEF Sidecar
<1>2. CASE sidecars[ctx] /\ podSeen' = podSeen \cup {ctx}
           /\ pc' = "mirror_pods" /\ k' = k + 1
           /\ UNCHANGED <<failedAt, tries>>
  <2>1. TypeOK'
    BY <1>1, <1>2 DEF IInv, TypeOK, cfgVars, envVars
  <2>2. Rest'
    BY <1>1, <1>2 DEF IInv, cfgVars, envVars
  <2>. QED
    BY <2>1, <2>2 DEF IInv
<1>3. CASE ~sidecars[ctx] /\ tries' = tries - 1
           /\ (IF tries - 1 = 0 THEN pc' = "failed" /\ failedAt' = "sidecar"
               ELSE UNCHANGED <<pc, failedAt>>)
           /\ UNCHANGED <<k, podSeen>>
  <2>1. TypeOK'
    BY <1>1, <1>3 DEF IInv, TypeOK, cfgVars, envVars
  <2>2. Rest'
    BY <1>1, <1>3 DEF IInv, TypeOK, cfgVars, envVars
  <2>. QED
    BY <2>1, <2>2 DEF IInv
<1>. QED
  BY <1>2, <1>3 DEF Sidecar

LEMMA S3ConfigureKeeps ==
    ASSUME IInv, S3Configure PROVE IInv'
<1>1. CASE /\ pc = "s3" /\ secrets' = Managed /\ pc' = "policy"
           /\ UNCHANGED <<cfgVars, envVars, failedAt, ctx, k, polls, tries,
                          tokenSeen, podSeen, profileOf, policyCreated,
                          ramen>>
  <2>1. TypeOK'
    BY <1>1 DEF IInv, TypeOK, cfgVars, envVars
  <2>2. Rest'
    BY <1>1 DEF IInv, cfgVars, envVars
  <2>. QED
    BY <2>1, <2>2 DEF IInv
<1>. QED
  BY <1>1, RaiseKeeps DEF S3Configure

\* deploy_dr_policy writes each managed cluster's matched profile and
\* applies the DRPolicy only when every one of them has a profile.
LEMMA CreatePolicyKeeps ==
    ASSUME IInv, CreatePolicy PROVE IInv'
<1>1. CASE /\ pc = "policy"
           /\ \A c \in Managed : MatchedProfile(c) # NoProfile
           /\ profileOf' = [c \in Managed |-> MatchedProfile(c)]
           /\ policyCreated' = TRUE /\ pc' = "policy_wait"
           /\ UNCHANGED <<cfgVars, envVars, failedAt, ctx, k, polls, tries,
                          tokenSeen, podSeen, secrets, ramen>>
  <2>1. profiles \in Seq(STRING) /\ profiles' = profiles
    BY <1>1 DEF IInv, TypeOK, cfgVars
  <2>2. ASSUME NEW c \in Managed
        PROVE  \E j \in 1..Len(profiles) :
                  profileOf'[c] = profiles[j] /\ NameIn(c, profiles[j])
    BY <1>1, <2>1, MatchedProfileIn
  <2>3. profileOf' \in [Managed -> {NoProfile} \cup
                         UNION {{l[j] : j \in 1..Len(l)} : l \in ProfileLists}]
    <3>1. profiles \in ProfileLists
      BY DEF IInv, TypeOK
    <3>2. \A c \in Managed : profileOf'[c] \in {profiles[j] : j \in 1..Len(profiles)}
      BY <2>2
    <3>. QED
      BY <1>1, <3>1, <3>2
  <2>6. TypeOK'
    BY <1>1, <2>1, <2>3 DEF IInv, TypeOK, cfgVars, envVars
  <2>5. Rest'
    BY <1>1 DEF IInv, cfgVars, envVars
  <2>. QED
    BY <2>6, <2>5 DEF IInv
<1>. QED
  BY <1>1, RaiseKeeps DEF CreatePolicy

LEMMA UpdateRamenKeeps ==
    ASSUME IInv, UpdateRamen PROVE IInv'
<1>1. CASE /\ pc = "ramen" /\ ramen' = TRUE /\ pc' = "done"
           /\ UNCHANGED <<cfgVars, envVars, failedAt, ctx, k, polls, tries,
                          tokenSeen, podSeen, secrets, profileOf,
                          policyCreated>>
  <2>1. TypeOK'
    BY <1>1 DEF IInv, TypeOK, cfgVars, envVars
  <2>2. Rest'
    BY <1>1 DEF IInv, cfgVars, envVars
  <2>. QED
    BY <2>1, <2>2 DEF IInv
<1>2. CASE Raise
  <2>2. TypeOK'
    BY <1>2 DEF IInv, TypeOK, Raise, cfgVars, envVars
  <2>3. Rest'
    BY <1>2 DEF IInv, Raise, cfgVars, envVars
  <2>. QED
    BY <2>2, <2>3 DEF IInv
<1>. QED
  BY <1>1, <1>2 DEF UpdateRamen

\* The clusters only bring things up: a pod, a sidecar set or a policy
\* once ready stays ready, and they never touch the deployer's state.
LEMMA EnvironmentKeeps ==
    ASSUME IInv, Environment PROVE IInv'
<1>1. UNCHANGED <<cfgVars, depVars, mirrored>>
  BY DEF Environment, HubOperatorUp, SecretsExchanged, PolicyValidated,
         ClusterProgress
<1>2. \A c \in Managed : mirrorPod[c] => mirrorPod'[c]
  BY DEF Environment, HubOperatorUp, SecretsExchanged, PolicyValidated,
         ClusterProgress, IInv, TypeOK
<1>3. \A c \in Managed : sidecars[c] => sidecars'[c]
  BY DEF Environment, HubOperatorUp, SecretsExchanged, PolicyValidated,
         ClusterProgress, IInv, TypeOK
<1>4. TypeOK'
  <2>1. CASE HubOperatorUp
    BY <2>1 DEF HubOperatorUp, IInv, TypeOK, cfgVars, depVars
  <2>2. CASE SecretsExchanged
    BY <2>2 DEF SecretsExchanged, IInv, TypeOK, cfgVars, depVars
  <2>3. CASE PolicyValidated
    BY <2>3 DEF PolicyValidated, IInv, TypeOK, cfgVars, depVars
  <2>4. ASSUME NEW c \in Managed, ClusterProgress(c) PROVE TypeOK'
    <3>1. UNCHANGED <<cfgVars, hubReady, mpPhase, mirrored, policyOk, depVars>>
      BY <2>4 DEF ClusterProgress
    <3>2. /\ token' \in [Managed -> PodPhases]
          /\ mirrorPod' \in [Managed -> BOOLEAN]
          /\ sidecars' \in [Managed -> BOOLEAN]
      <4>1. CASE token[c] # "Running"
                 /\ token' = [token EXCEPT ![c] =
                                 IF @ = "none" THEN "Pending" ELSE "Running"]
                 /\ UNCHANGED <<mirrorPod, sidecars>>
        BY <4>1 DEF IInv, TypeOK
      <4>2. CASE ~mirrorPod[c] /\ mirrorPod' = [mirrorPod EXCEPT ![c] = TRUE]
                 /\ UNCHANGED <<token, sidecars>>
        BY <4>2 DEF IInv, TypeOK
      <4>3. CASE ~sidecars[c] /\ sidecars' = [sidecars EXCEPT ![c] = TRUE]
                 /\ UNCHANGED <<token, mirrorPod>>
        BY <4>3 DEF IInv, TypeOK
      <4>. QED
        BY <2>4, <4>1, <4>2, <4>3 DEF ClusterProgress
    <3>. QED
      BY <3>1, <3>2 DEF IInv, TypeOK, cfgVars, depVars
  <2>. QED
    BY <2>1, <2>2, <2>3, <2>4 DEF Environment
<1>5. Rest'
  BY <1>1, <1>2, <1>3 DEF IInv, TypeOK, cfgVars, depVars
<1>. QED
  BY <1>4, <1>5 DEF IInv

LEMMA NextIInv == IInv /\ [Next]_vars => IInv'
<1> SUFFICES ASSUME IInv, [Next]_vars PROVE IInv'
  OBVIOUS
<1>1. CASE CreateNamespaces
  BY <1>1, GoKeeps DEF CreateNamespaces
<1>2. CASE CreateOperatorGroup
  BY <1>2, GoKeeps DEF CreateOperatorGroup
<1>3. CASE DeployMco
  BY <1>3, WaitKeeps DEF DeployMco
<1>4. CASE DeployHubOperator
  BY <1>4, WaitKeeps DEF DeployHubOperator
<1>5. CASE MirrorPeerPhase
  <2>1. rbd
    BY <1>5 DEF MirrorPeerPhase, Wait, IInv
  <2>. QED
    BY <1>5, <2>1, WaitKeeps DEF MirrorPeerPhase
<1>6. CASE PolicyWait
  BY <1>6, WaitKeeps DEF PolicyWait
<1>7. CASE UNCHANGED vars
  <2>0. /\ rbd' = rbd /\ store' = store /\ profiles' = profiles
        /\ hubReady' = hubReady /\ mpPhase' = mpPhase /\ token' = token
        /\ mirrored' = mirrored /\ mirrorPod' = mirrorPod
        /\ sidecars' = sidecars /\ policyOk' = policyOk
        /\ pc' = pc /\ failedAt' = failedAt /\ ctx' = ctx /\ k' = k
        /\ polls' = polls /\ tries' = tries /\ tokenSeen' = tokenSeen
        /\ podSeen' = podSeen /\ secrets' = secrets
        /\ profileOf' = profileOf /\ policyCreated' = policyCreated
        /\ ramen' = ramen
    BY <1>7 DEF vars, cfgVars, envVars, depVars
  <2>1. TypeOK'
    BY <2>0 DEF IInv, TypeOK
  <2>2. Rest'
    BY <2>0, Zenon DEF IInv
  <2>. QED
    BY <2>1, <2>2 DEF IInv
<1>. QED
  BY <1>1, <1>2, <1>3, <1>4, <1>5, <1>6, <1>7, ConstructKeeps,
     CreateMirrorPeerKeeps, TokenLoopKeeps, PoolCheckKeeps,
     MirrorPodsKeeps, SidecarKeeps, S3ConfigureKeeps, CreatePolicyKeeps,
     UpdateRamenKeeps, EnvironmentKeeps DEF Next, Deployer

\* The deployer's state keeps its types (MultiClusterDR's TypeOK) for
\* every number of clusters, hub and profile list.
THEOREM TypeCorrect == Spec => []TypeOK
<1>1. IInv => TypeOK
  BY DEF IInv
<1>. QED
  BY <1>1, InitIInv, NextIInv, PTL DEF Spec

\* configure_mirror_peer and the loop after it: in an RBD deployment no
\* DRPolicy is applied before every managed cluster was seen mirroring,
\* with its rbd-mirror pod and its CSI sidecars, and got the s3 secrets.
THEOREM ValidatedSafe == Spec => []ValidatedBeforePolicy
<1>1. IInv => ValidatedBeforePolicy
  BY DEF IInv
<1>. QED
  BY <1>1, InitIInv, NextIInv, PTL DEF Spec

=============================================================================
