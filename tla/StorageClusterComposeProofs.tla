--------------------- MODULE StorageClusterComposeProofs ---------------------
(***************************************************************************)
(* Proofs that the StorageCluster the composer creates has a device set   *)
(* matching its topology, the lowered resource requirements when asked    *)
(* for, and the encryption asked for, for every set of plans the          *)
(* configuration keys allow (ComposeAssumption), not only for those TLC  *)
(* enumerates.                                                             *)
(***************************************************************************)
EXTENDS StorageClusterCompose, TLAPS

\* The statements before the arbiter overlay, which leave the topology of
\* the template alone.
PreArbiter == {"storage_system", "rook_cm", "modify_csv", "custom_sc",
               "rook_log", "kms", "mcg_only", "components", "arbiter"}

\* The statements after each overlay, up to the end of the method.
AfterFlexible == {"request", "lso", "resources", "encryption", "ceph_debug",
                  "create", "infra", "done"}
AfterResources == {"encryption", "ceph_debug", "create", "infra", "done"}
AfterEncryption == {"ceph_debug", "create", "infra", "done"}

\* The bodies of the three properties, for a cluster_data c.
Topology(c) ==
    /\ c.arbiter => ~c.flexibleScaling /\ c.replica = 4
    /\ c.flexibleScaling => c.replica = 1
    /\ ~c.arbiter /\ ~c.flexibleScaling => c.replica = 3

Lowered(c) ==
    plan.lowerReq =>
        /\ c.dsResources = "none"
        /\ c.resources \in {"lowered", "lowered_endpoint"}

Encrypted(c) ==
    plan.encryption =>
        /\ c.encryption \cap {"enable", "clusterWide"} # {}
        /\ ("kms" \in c.encryption) = plan.kms

(***************************************************************************)
(* The inductive invariant.  Each property holds from the overlay that    *)
(* settles its keys on, because no later overlay writes them; before the  *)
(* flexible-scaling overlay the arbiter key of cluster_data is the plan's *)
(* arbiter flag, which is what makes that overlay's guard exclude it.     *)
(***************************************************************************)
IInv ==
    /\ plan \in Plans
    /\ pc \in Steps \cup {"failed", "returned"}
    /\ created \in BOOLEAN
    /\ DOMAIN cr = DOMAIN Template
    /\ pc \in PreArbiter =>
         cr.arbiter = FALSE /\ cr.flexibleScaling = FALSE /\ cr.replica = 3
    /\ pc = "flexible" =>
         /\ cr.arbiter = plan.arbiter
         /\ ~cr.flexibleScaling
         /\ cr.replica = IF plan.arbiter THEN 4 ELSE 3
    /\ pc \in AfterFlexible \/ created => Topology(cr)
    /\ pc \in AfterResources \/ created => Lowered(cr)
    /\ pc \in AfterEncryption \/ created => Encrypted(cr)
    /\ created => pc \in {"infra", "done", "failed"}

\* A plan's keys have the types of PlanType.
LEMMA PlanTyped ==
    ASSUME NEW p \in Plans
    PROVE  /\ p.arbiter \in BOOLEAN /\ p.kms \in BOOLEAN
           /\ p.lowerReq \in BOOLEAN /\ p.encryption \in BOOLEAN
           /\ p.localStorage \in BOOLEAN /\ p.ocs \in Nat /\ p.zones \in Nat
BY ComposeAssumption DEF PlanType

LEMMA InitIInv == Init => IInv
<1> SUFFICES ASSUME Init PROVE IInv
  OBVIOUS
<1>1. pc \in Steps \cup {"failed", "returned"}
  BY DEF Init, Steps, After
<1>2. pc \in PreArbiter /\ pc \notin AfterFlexible \cup {"flexible"}
  BY DEF Init, PreArbiter, AfterFlexible
<1>3. cr.arbiter = FALSE /\ cr.flexibleScaling = FALSE /\ cr.replica = 3
  BY DEF Init, Template
<1>4. created = FALSE /\ plan \in Plans /\ DOMAIN cr = DOMAIN Template
  BY DEF Init
<1>5. pc \notin AfterResources \cup AfterEncryption
  BY <1>2 DEF AfterFlexible, AfterResources, AfterEncryption
<1> QED
  BY <1>1, <1>2, <1>3, <1>4, <1>5 DEF IInv

\* The statements the composer moves through, once it has left a set.
LEMMA AfterFacts ==
    /\ \A s \in {"storage_system", "rook_cm", "modify_csv", "custom_sc",
                 "rook_log", "kms"} : After[s] \in PreArbiter
    /\ After["components"] = "arbiter" /\ After["arbiter"] = "flexible"
    /\ After["flexible"] = "request"
    /\ \A s \in {"request", "lso"} : After[s] \in AfterFlexible \ AfterResources
    /\ After["resources"] = "encryption"
    /\ After["encryption"] = "ceph_debug"
    /\ After["ceph_debug"] = "create" /\ After["create"] = "infra"
    /\ After["infra"] = "done"
BY DEF After, PreArbiter, AfterFlexible, AfterResources

\* The keys of cluster_data that an overlay does not name keep their value.
LEMMA ExceptKeeps ==
    ASSUME NEW c, DOMAIN c = DOMAIN Template
    PROVE  /\ DOMAIN Template = {"ignored", "mcgIgnore", "arbiter",
                                 "arbiterLocation", "flexibleScaling",
                                 "replica", "count", "request",
                                 "storageClass", "dsResources", "resources",
                                 "encryption"}
           /\ "arbiter" \in DOMAIN c /\ "flexibleScaling" \in DOMAIN c
           /\ "replica" \in DOMAIN c /\ "dsResources" \in DOMAIN c
           /\ "resources" \in DOMAIN c /\ "encryption" \in DOMAIN c
           /\ "request" \in DOMAIN c /\ "storageClass" \in DOMAIN c
           /\ "count" \in DOMAIN c /\ "ignored" \in DOMAIN c
           /\ "arbiterLocation" \in DOMAIN c
BY DEF Template

\* The commands before the StorageCluster leave cluster_data alone.
LEMMA CommandIInv == IInv /\ (Command \/ CustomSc) => IInv'
<1> SUFFICES ASSUME IInv, Command \/ CustomSc PROVE IInv'
  OBVIOUS
<1>1. /\ pc \in PreArbiter \ {"mcg_only", "components", "arbiter"}
      /\ pc' = After[pc]
      /\ UNCHANGED <<plan, cr, created>>
  BY DEF Command, CustomSc, Go, PreArbiter
<1>2. pc' \in PreArbiter
  BY <1>1, AfterFacts DEF PreArbiter
<1>3. pc' \in Steps /\ pc' \notin AfterFlexible \cup {"flexible"}
  BY <1>2 DEF PreArbiter, Steps, After, AfterFlexible
<1>4. ~created
  BY <1>1 DEF IInv, PreArbiter
<1> QED
  BY <1>1, <1>2, <1>3, <1>4 DEF IInv, PreArbiter, AfterFlexible,
     AfterResources, AfterEncryption

\* The MCG-only test either returns or goes on to the template.
LEMMA McgOnlyIInv == IInv /\ McgOnly => IInv'
<1> SUFFICES ASSUME IInv, McgOnly PROVE IInv'
  OBVIOUS
<1>1. pc' \in {"returned", "components"} /\ UNCHANGED <<plan, cr, created>>
  BY DEF McgOnly
<1>2. /\ ~created
      /\ cr.arbiter = FALSE /\ cr.flexibleScaling = FALSE /\ cr.replica = 3
  BY DEF McgOnly, IInv, PreArbiter
<1>3. pc' \in Steps \cup {"failed", "returned"}
  BY <1>1 DEF Steps, After
<1> QED
  BY <1>1, <1>2, <1>3 DEF IInv, PreArbiter, AfterFlexible, AfterResources,
     AfterEncryption

\* Loading the template and the disable map keep the template's topology.
LEMMA ComponentsIInv == IInv /\ ComponentsOverlay => IInv'
<1> SUFFICES ASSUME IInv, ComponentsOverlay PROVE IInv'
  OBVIOUS
<1>1. pc = "components" /\ pc' = "arbiter" /\ UNCHANGED <<plan, created>>
  BY AfterFacts DEF ComponentsOverlay, Go
<1>2. ~created
  BY <1>1 DEF IInv
<1>3. /\ DOMAIN cr' = DOMAIN Template
      /\ cr'.arbiter = FALSE /\ cr'.flexibleScaling = FALSE
      /\ cr'.replica = 3
  BY DEF ComponentsOverlay, Template
<1> QED
  BY <1>1, <1>2, <1>3 DEF IInv, PreArbiter, AfterFlexible, AfterResources,
     AfterEncryption, Steps, After

\* The arbiter overlay sets the arbiter key to the plan's flag.
LEMMA ArbiterIInv == IInv /\ ArbiterOverlay => IInv'
<1> SUFFICES ASSUME IInv, ArbiterOverlay PROVE IInv'
  OBVIOUS
<1>1. pc = "arbiter" /\ pc' = "flexible" /\ UNCHANGED <<plan, created>>
  BY AfterFacts DEF ArbiterOverlay, Go
<1>2. /\ ~created /\ plan \in Plans /\ DOMAIN cr = DOMAIN Template
      /\ cr.arbiter = FALSE /\ cr.flexibleScaling = FALSE /\ cr.replica = 3
  BY <1>1 DEF IInv, PreArbiter
<1>3. plan.arbiter \in BOOLEAN
  BY <1>2, PlanTyped
<1>4. /\ DOMAIN cr' = DOMAIN Template
      /\ cr'.arbiter = plan.arbiter
      /\ ~cr'.flexibleScaling
      /\ cr'.replica = IF plan.arbiter THEN 4 ELSE 3
  <2>1. CASE plan.arbiter
    <3>1. PICK z : cr' = [cr EXCEPT !.arbiter = TRUE, !.arbiterLocation = z,
                                    !.replica = 4]
      BY <2>1 DEF ArbiterOverlay
    <3> QED
      BY <3>1, <2>1, <1>2, ExceptKeeps
  <2>2. CASE ~plan.arbiter
    BY <2>2, <1>2, <1>3 DEF ArbiterOverlay
  <2> QED
    BY <2>1, <2>2
<1> QED
  BY <1>1, <1>2, <1>4 DEF IInv, PreArbiter, AfterFlexible, AfterResources,
     AfterEncryption, Steps, After

\* The flexible-scaling overlay is guarded by "not arbiter_deployment".
LEMMA FlexibleIInv == IInv /\ FlexibleOverlay => IInv'
<1> SUFFICES ASSUME IInv, FlexibleOverlay PROVE IInv'
  OBVIOUS
<1>1. pc = "flexible" /\ pc' = "request" /\ UNCHANGED <<plan, created>>
  BY AfterFacts DEF FlexibleOverlay, Go
<1>2. /\ ~created /\ plan \in Plans /\ DOMAIN cr = DOMAIN Template
      /\ cr.arbiter = plan.arbiter /\ ~cr.flexibleScaling
      /\ cr.replica = IF plan.arbiter THEN 4 ELSE 3
  BY <1>1 DEF IInv
<1>3. plan.arbiter \in BOOLEAN
  BY <1>2, PlanTyped
<1>4. DOMAIN cr' = DOMAIN Template /\ Topology(cr')
  <2>1. CASE plan.localStorage /\ plan.ocs >= 7 /\ plan.zones < 3
             /\ ~plan.arbiter
    BY <2>1, <1>2, <1>3, ExceptKeeps DEF FlexibleOverlay, Topology
  <2>2. CASE ~(plan.localStorage /\ plan.ocs >= 7 /\ plan.zones < 3
               /\ ~plan.arbiter)
    BY <2>2, <1>2, <1>3 DEF FlexibleOverlay, Topology
  <2> QED
    BY <2>1, <2>2
<1> QED
  BY <1>1, <1>2, <1>4 DEF IInv, PreArbiter, AfterFlexible, AfterResources,
     AfterEncryption, Steps, After

\* An overlay that leaves the topology keys alone keeps Topology.
LEMMA TopologyKept ==
    ASSUME NEW c, NEW d, Topology(c),
           d.arbiter = c.arbiter, d.flexibleScaling = c.flexibleScaling,
           d.replica = c.replica
    PROVE  Topology(d)
BY DEF Topology

\* The request and LSO overlays rewrite neither topology nor resources.
LEMMA RequestLsoIInv == IInv /\ (RequestOverlay \/ LsoOverlay) => IInv'
<1> SUFFICES ASSUME IInv, RequestOverlay \/ LsoOverlay PROVE IInv'
  OBVIOUS
<1>1. /\ pc \in {"request", "lso"} /\ pc' = After[pc]
      /\ UNCHANGED <<plan, created>>
  BY DEF RequestOverlay, LsoOverlay, Go
<1>2. pc' \in AfterFlexible \ AfterResources
  BY <1>1, AfterFacts
<1>3. ~created /\ DOMAIN cr = DOMAIN Template /\ Topology(cr)
  BY <1>1 DEF IInv, AfterFlexible
<1>4. /\ DOMAIN cr' = DOMAIN Template
      /\ cr'.arbiter = cr.arbiter
      /\ cr'.flexibleScaling = cr.flexibleScaling
      /\ cr'.replica = cr.replica
  <2>1. CASE RequestOverlay
    BY <2>1, <1>3, ExceptKeeps DEF RequestOverlay
  <2>2. CASE LsoOverlay
    BY <2>2, <1>3, ExceptKeeps DEF LsoOverlay
  <2> QED
    BY <2>1, <2>2
<1>5. Topology(cr')
  BY <1>3, <1>4, TopologyKept
<1> QED
  BY <1>1, <1>2, <1>3, <1>4, <1>5 DEF IInv, PreArbiter, AfterFlexible,
     AfterResources, AfterEncryption, Steps, After

\* The resources overlay settles the lowered requirements.
LEMMA ResourcesIInv == IInv /\ ResourcesOverlay => IInv'
<1> SUFFICES ASSUME IInv, ResourcesOverlay PROVE IInv'
  OBVIOUS
<1>1. /\ pc = "resources" /\ pc' = "encryption"
      /\ UNCHANGED <<plan, created>>
  BY AfterFacts DEF ResourcesOverlay, Go
<1>2. ~created /\ DOMAIN cr = DOMAIN Template /\ Topology(cr)
      /\ plan \in Plans
  BY <1>1 DEF IInv, AfterFlexible
<1>0. plan.lowerReq \in BOOLEAN /\ plan.localStorage \in BOOLEAN
  BY <1>2, PlanTyped
<1>3. /\ DOMAIN cr' = DOMAIN Template
      /\ cr'.arbiter = cr.arbiter
      /\ cr'.flexibleScaling = cr.flexibleScaling
      /\ cr'.replica = cr.replica
      /\ Lowered(cr')
  <2>1. CASE plan.lowerReq
    <3>1. cr' = [cr EXCEPT !.dsResources = "none",
                   !.resources = IF plan.ocs >= 5 THEN "lowered_endpoint"
                                 ELSE "lowered"]
      BY <2>1, <1>0 DEF ResourcesOverlay
    <3> QED
      BY <3>1, <2>1, <1>2, ExceptKeeps DEF Lowered
  <2>2. CASE ~plan.lowerReq /\ plan.localStorage /\ plan.platform = "aws"
    <3>1. cr' = [cr EXCEPT !.resources = IF plan.ocs < 5 THEN "mds_noobaa"
                                         ELSE "mds"]
      BY <2>2, <1>0 DEF ResourcesOverlay
    <3> QED
      BY <3>1, <2>2, <1>0, <1>2, ExceptKeeps DEF Lowered
  <2>3. CASE ~plan.lowerReq /\ ~(plan.localStorage /\ plan.platform = "aws")
    BY <2>3, <1>0, <1>2 DEF ResourcesOverlay, Lowered
  <2> QED
    BY <2>1, <2>2, <2>3
<1>4. Topology(cr')
  BY <1>2, <1>3, TopologyKept
<1> QED
  BY <1>1, <1>2, <1>3, <1>4 DEF IInv, PreArbiter, AfterFlexible,
     AfterResources, AfterEncryption, Steps, After, Lowered

\* The encryption overlay settles the encryption block, KMS key included.
LEMMA EncryptionIInv == IInv /\ EncryptionOverlay => IInv'
<1> SUFFICES ASSUME IInv, EncryptionOverlay PROVE IInv'
  OBVIOUS
<1>1. /\ pc = "encryption" /\ pc' = "ceph_debug"
      /\ UNCHANGED <<plan, created>>
  BY AfterFacts DEF EncryptionOverlay, Go
<1>2. /\ ~created /\ DOMAIN cr = DOMAIN Template /\ plan \in Plans
      /\ Topology(cr) /\ Lowered(cr)
  BY <1>1 DEF IInv, AfterFlexible, AfterResources
<1>0. plan.encryption \in BOOLEAN /\ plan.kms \in BOOLEAN
  BY <1>2, PlanTyped
<1>3. /\ DOMAIN cr' = DOMAIN Template
      /\ cr'.arbiter = cr.arbiter
      /\ cr'.flexibleScaling = cr.flexibleScaling
      /\ cr'.replica = cr.replica
      /\ cr'.dsResources = cr.dsResources
      /\ cr'.resources = cr.resources
      /\ Encrypted(cr')
  <2>1. CASE plan.encryption
    <3> DEFINE base == IF plan.ocs >= 10 THEN {"clusterWide"} ELSE {"enable"}
               enc == IF plan.kms THEN base \cup {"kms"} ELSE base
    <3>1. cr' = [cr EXCEPT !.encryption = enc]
      BY <2>1 DEF EncryptionOverlay
    <3>2. enc \cap {"enable", "clusterWide"} # {} /\ ("kms" \in enc) = plan.kms
      BY <1>0
    <3> QED
      BY <3>1, <3>2, <2>1, <1>2, ExceptKeeps DEF Encrypted
  <2>2. CASE ~plan.encryption
    <3>1. cr' = cr
      BY <2>2, <1>0 DEF EncryptionOverlay
    <3> QED
      BY <3>1, <2>2, <1>2 DEF Encrypted
  <2> QED
    BY <2>1, <2>2
<1>4. Topology(cr')
  BY <1>2, <1>3, TopologyKept
<1>5. Lowered(cr')
  BY <1>2, <1>3 DEF Lowered
<1> QED
  BY <1>1, <1>3, <1>4, <1>5 DEF IInv, PreArbiter, AfterFlexible,
     AfterResources, AfterEncryption, Steps, After, Lowered, Encrypted

\* The ceph debug overlay rewrites managedResources only.
LEMMA CephDebugIInv == IInv /\ CephDebugOverlay => IInv'
<1> SUFFICES ASSUME IInv, CephDebugOverlay PROVE IInv'
  OBVIOUS
<1>1. /\ pc = "ceph_debug" /\ pc' = "create"
      /\ UNCHANGED <<plan, created>>
  BY AfterFacts DEF CephDebugOverlay, Go
<1>2. /\ ~created /\ DOMAIN cr = DOMAIN Template
      /\ Topology(cr) /\ Lowered(cr) /\ Encrypted(cr)
  BY <1>1 DEF IInv, AfterFlexible, AfterResources, AfterEncryption
<1>3. /\ DOMAIN cr' = DOMAIN Template
      /\ cr'.arbiter = cr.arbiter
      /\ cr'.flexibleScaling = cr.flexibleScaling
      /\ cr'.replica = cr.replica
      /\ cr'.dsResources = cr.dsResources
      /\ cr'.resources = cr.resources
      /\ cr'.encryption = cr.encryption
  BY <1>2, ExceptKeeps DEF CephDebugOverlay
<1>4. Topology(cr') /\ Lowered(cr') /\ Encrypted(cr')
  BY <1>2, <1>3, TopologyKept DEF Lowered, Encrypted
<1> QED
  BY <1>1, <1>3, <1>4 DEF IInv, PreArbiter, AfterFlexible,
     AfterResources, AfterEncryption, Steps, After, Lowered, Encrypted

\* Create, the infra annotation and an exception leave cluster_data alone.
LEMMA EndIInv == IInv /\ (Create \/ Infra \/ \E s \in DOMAIN After : Raise(s))
                    => IInv'
<1> SUFFICES ASSUME IInv, Create \/ Infra \/ \E s \in DOMAIN After : Raise(s)
             PROVE IInv'
  OBVIOUS
<1>1. UNCHANGED <<plan, cr>>
  BY DEF Create, Infra, Raise
<1>2. CASE Create
  <2>1. pc = "create" /\ pc' = "infra" /\ created' = TRUE
    BY <1>2, AfterFacts DEF Create, Go
  <2> QED
    BY <2>1, <1>1 DEF IInv, PreArbiter, AfterFlexible, AfterResources,
       AfterEncryption, Steps, After, Lowered, Encrypted
<1>3. CASE Infra
  <2>1. pc = "infra" /\ pc' = "done" /\ UNCHANGED created
    BY <1>3, AfterFacts DEF Infra, Go
  <2> QED
    BY <2>1, <1>1 DEF IInv, PreArbiter, AfterFlexible, AfterResources,
       AfterEncryption, Steps, After, Lowered, Encrypted
<1>4. CASE \E s \in DOMAIN After : Raise(s)
  <2>1. pc' = "failed" /\ UNCHANGED created
    BY <1>4 DEF Raise
  <2> QED
    BY <2>1, <1>1 DEF IInv, PreArbiter, AfterFlexible, AfterResources,
       AfterEncryption, Lowered, Encrypted
<1> QED
  BY <1>2, <1>3, <1>4

LEMMA NextIInv == IInv /\ [Next]_vars => IInv'
<1> SUFFICES ASSUME IInv, [Next]_vars PROVE IInv'
  OBVIOUS
<1>1. CASE Next
  BY <1>1, CommandIInv, McgOnlyIInv, ComponentsIInv, ArbiterIInv,
     FlexibleIInv, RequestLsoIInv, ResourcesIInv, EncryptionIInv,
     CephDebugIInv, EndIInv DEF Next, Composer
<1>2. CASE UNCHANGED vars
  BY <1>2 DEF vars, IInv, PreArbiter, AfterFlexible, AfterResources,
     AfterEncryption, Steps, After, Lowered, Encrypted, Topology
<1> QED
  BY <1>1, <1>2

(***************************************************************************)
(* For every configuration: the StorageCluster that deploy_ocs_via_operator *)
(* creates has a device set matching its topology; an arbiter cluster is    *)
(* never flexibly scaled (the overlays at lines 809-836).                   *)
(***************************************************************************)
THEOREM TopologySafe == Spec => []DeviceSetMatchesTopology
<1>1. IInv => DeviceSetMatchesTopology
  BY DEF IInv, DeviceSetMatchesTopology, Topology
<1> QED
  BY <1>1, InitIInv, NextIInv, PTL DEF Spec

(***************************************************************************)
(* For every configuration: with allow_lower_instance_requirements the     *)
(* created StorageCluster has the lowered resources and no device-set      *)
(* limits, whatever preset an earlier overlay wrote (lines 874-937).       *)
(***************************************************************************)
THEOREM LowerRequirementsSafe == Spec => []LowerRequirementsWin
<1>1. IInv => LowerRequirementsWin
  BY DEF IInv, LowerRequirementsWin, Lowered
<1> QED
  BY <1>1, InitIInv, NextIInv, PTL DEF Spec

(***************************************************************************)
(* For every configuration: encryption at rest that is asked for is        *)
(* enabled in the created StorageCluster, with the KMS key exactly when a  *)
(* KMS was deployed, on both sides of the 4.10 change (lines 959-975).     *)
(***************************************************************************)
THEOREM EncryptionSafe == Spec => []EncryptionHonoured
<1>1. IInv => EncryptionHonoured
  BY DEF IInv, EncryptionHonoured, Encrypted
<1> QED
  BY <1>1, InitIInv, NextIInv, PTL DEF Spec
====
