------------------------ MODULE StorageClusterCompose ------------------------
(***************************************************************************)
(* The storage-cluster part of Deployment.deploy_ocs_via_operator          *)
(* (src/ocs_ci/deployment/deployment.py, lines 724-1000): the commands run *)
(* once the operator CSVs have succeeded, and the in-place composition of  *)
(* the StorageCluster custom resource (cluster_data) from the template,    *)
(* one conditional overlay after the other, up to "oc create".             *)
(*                                                                         *)
(* The configuration the code reads (config.DEPLOYMENT, ENV_DATA,          *)
(* COMPONENTS, the platform defaults and what the cluster reports) is one  *)
(* record `plan`, fixed for the run.  cluster_data is the record `cr`,     *)
(* reduced to the keys the overlays write and the properties compare.     *)
(* deviceset_data is an alias of cluster_data.spec.storageDeviceSets[0],   *)
(* so the device-set keys are fields of `cr` too.                          *)
(***************************************************************************)
EXTENDS Naturals, Sequences, FiniteSets

CONSTANTS
    Plans,          \* the configurations the composer can be run with
    Components,     \* the keys of config.COMPONENTS without "disable_"
    ComponentsMap,  \* constants.OCS_COMPONENTS_MAP: component -> resource
    Zones,          \* availability zones of the cluster nodes
    NoZone          \* None: no arbiter zone configured

\* The device size of a PV as the cluster reports it: a number and a unit.
Units == {"Mi", "Gi", "Ti"}
Quantity == [n : Nat, unit : Units]

\* What each configuration key can hold.
PlanType ==
    [ocs : Nat, platform : STRING, arbiter : BOOLEAN,
     arbiterAutodetect : BOOLEAN, arbiterZone : Zones \cup {NoZone},
     masterOnlyZones : SUBSET Zones, localStorage : BOOLEAN, zones : Nat,
     csvChange : BOOLEAN, customSc : BOOLEAN, rookLog : BOOLEAN,
     kms : BOOLEAN, mcgOnly : BOOLEAN, cliDisabled : SUBSET Components,
     cfgDisabled : SUBSET Components, lowerReq : BOOLEAN,
     encryption : BOOLEAN, cephDebug : BOOLEAN, infraNodes : BOOLEAN,
     lsoType : STRING, i3 : BOOLEAN, lsoCount : Nat, deviceSize : Nat,
     pvSizes : Seq(Quantity), platformSc : BOOLEAN]

ASSUME ComposeAssumption ==
    /\ NoZone \notin Zones
    /\ ComponentsMap \in [Components -> STRING]
    /\ "noobaa" \in Components
    /\ Plans \subseteq PlanType

(***************************************************************************)
(* A quantity becomes the string "<digits><unit>" in the PV list and in   *)
(* the storage request; Python compares strings by code point.            *)
(***************************************************************************)
DigitsOf[n \in Nat] ==
    IF n < 10 THEN <<n>> ELSE Append(DigitsOf[n \div 10], n % 10)

UnitCodes == [u \in Units |->
                IF u = "Mi" THEN <<77, 105>>
                ELSE IF u = "Gi" THEN <<71, 105>> ELSE <<84, 105>>]

QuantityString(q) ==
    [i \in DOMAIN DigitsOf[q.n] |-> 48 + DigitsOf[q.n][i]] \o UnitCodes[q.unit]

\* a < b for Python str: the first differing code point, or a proper prefix.
StrLess(a, b) ==
    \E k \in 0..Len(a) :
        /\ k <= Len(b)
        /\ \A i \in 1..k : a[i] = b[i]
        /\ \/ k = Len(a) /\ k < Len(b)
           \/ k < Len(a) /\ k < Len(b) /\ a[k + 1] < b[k + 1]

\* pv_size_list.sort(); pv_size_list[0]: the least string of the list.
FirstSorted(s) ==
    CHOOSE q \in {s[i] : i \in DOMAIN s} :
        \A j \in DOMAIN s : ~StrLess(QuantityString(s[j]), QuantityString(q))

VARIABLES
    plan,       \* the configuration of this run
    pc,         \* the next statement of deploy_ocs_via_operator
    failedAt,   \* where the exception was raised
    defaultSc,  \* self.DEFAULT_STORAGECLASS
    cr,         \* cluster_data
    created     \* "oc create -f" of cluster_data has succeeded

vars == <<plan, pc, failedAt, defaultSc, cr, created>>

\* The statement after each one, in the order of the method's body.
After == [storage_system |-> "rook_cm", rook_cm |-> "modify_csv",
          modify_csv |-> "custom_sc", custom_sc |-> "rook_log",
          rook_log |-> "kms", kms |-> "mcg_only", mcg_only |-> "components",
          components |-> "arbiter", arbiter |-> "flexible",
          flexible |-> "request", request |-> "lso", lso |-> "resources",
          resources |-> "encryption", encryption |-> "ceph_debug",
          ceph_debug |-> "create", create |-> "infra", infra |-> "done"]

Steps == DOMAIN After \cup {"done"}

ManagedResources == {ComponentsMap[c] : c \in Components} \cup {"cephConfig"}

\* The resource presets of spec.resources the code can write.
ResourcePresets == {"template", "lowered", "lowered_endpoint", "mds",
                    "mds_noobaa"}

\* The keys of cluster_data the overlays write.
CR == [ignored : SUBSET ManagedResources,   \* managedResources: ignore
       mcgIgnore : BOOLEAN,                 \* multiCloudGateway: ignore
       arbiter : BOOLEAN,
       arbiterLocation : Zones \cup {NoZone},
       flexibleScaling : BOOLEAN,
       replica : Nat,
       count : Nat,
       request : Quantity,
       storageClass : {"none", "platform", "custom", "lso"},
       dsResources : {"template", "i3", "none"},
       resources : ResourcePresets,
       encryption : SUBSET {"enable", "clusterWide", "kms"}]

\* constants.STORAGE_CLUSTER_YAML as the keys above see it.
Template == [ignored |-> {}, mcgIgnore |-> FALSE, arbiter |-> FALSE,
             arbiterLocation |-> NoZone, flexibleScaling |-> FALSE,
             replica |-> 3, count |-> 1, request |-> [n |-> 0, unit |-> "Gi"],
             storageClass |-> "none", dsResources |-> "template",
             resources |-> "template", encryption |-> {}]

\* The statements that run an oc command when plan asks for them.
Issued(s) ==
    \/ s = "storage_system" /\ plan.ocs >= 9
    \/ s = "rook_cm" /\ plan.platform = "ibmcloud"
    \/ s = "modify_csv" /\ plan.csvChange
    \/ s = "custom_sc" /\ plan.customSc
    \/ s = "rook_log" /\ plan.rookLog
    \/ s = "kms" /\ plan.kms
    \/ s = "mcg_only" /\ plan.mcgOnly
    \/ s = "ceph_debug" /\ plan.cephDebug
    \/ s = "create"
    \/ s = "infra" /\ plan.infraNodes

\* get_arbiter_location finds no master-only zone to autodetect.
NoArbiterZone ==
    plan.arbiter /\ plan.arbiterAutodetect /\ plan.masterOnlyZones = {}

\* The exceptions the code raises itself, whatever the cluster answers:
\* UnsupportedFeatureError (lines 959-964), the UnavailableResourceException
\* of get_arbiter_location (592-596), the IndexError of pv_size_list[0].
Rejects(s) ==
    \/ s = "arbiter" /\ NoArbiterZone
    \/ s = "request" /\ plan.platform = "baremetal" /\ plan.pvSizes = <<>>
    \/ s = "encryption" /\ plan.encryption /\ plan.ocs < 6

Init ==
    /\ plan \in Plans
    /\ pc = "storage_system"
    /\ failedAt = "none"
    /\ defaultSc = IF plan.platformSc THEN "platform" ELSE "none"
    /\ cr = Template
    /\ created = FALSE

\* A command fails or the code raises: the exception leaves the method.
Raise(s) ==
    /\ pc = s
    /\ Issued(s) \/ Rejects(s)
    /\ pc' = "failed"
    /\ failedAt' = s
    /\ UNCHANGED <<plan, defaultSc, cr, created>>

Go(s) == pc = s /\ ~Rejects(s) /\ pc' = After[s] /\ UNCHANGED failedAt

\* Lines 724-753 and 763-769: commands with no effect on the CR.
Command ==
    /\ pc \in {"storage_system", "rook_cm", "modify_csv", "rook_log", "kms"}
    /\ Go(pc)
    /\ UNCHANGED <<plan, defaultSc, cr, created>>

\* Lines 755-761: a custom storage class becomes DEFAULT_STORAGECLASS.
CustomSc ==
    /\ Go("custom_sc")
    /\ defaultSc' = IF plan.customSc THEN "custom" ELSE defaultSc
    /\ UNCHANGED <<plan, cr, created>>

\* Lines 771-773: an MCG-only deployment returns before any StorageCluster.
McgOnly ==
    /\ pc = "mcg_only"
    /\ pc' = IF plan.mcgOnly THEN "returned" ELSE "components"
    /\ UNCHANGED <<plan, failedAt, defaultSc, cr, created>>

\* The components disabled on the command line or in the config file.
Disabled == plan.cliDisabled \cup plan.cfgDisabled

\* Lines 775-807: load the template, then one merge per disabled component.
ComponentsOverlay ==
    /\ Go("components")
    /\ cr' = [Template EXCEPT
                !.ignored = {ComponentsMap[c] : c \in Disabled \ {"noobaa"}},
                !.mcgIgnore = "noobaa" \in Disabled]
    /\ UNCHANGED <<plan, defaultSc, created>>

\* get_arbiter_location: the configured zone, or a master-only zone.
ArbiterLocations ==
    IF ~plan.arbiterAutodetect THEN {plan.arbiterZone}
    ELSE plan.masterOnlyZones

\* Lines 809-816 and 568-600: arbiter topology, device-set replica 4.
ArbiterOverlay ==
    /\ Go("arbiter")
    /\ IF plan.arbiter
         THEN \E z \in ArbiterLocations :
                cr' = [cr EXCEPT !.arbiter = TRUE, !.arbiterLocation = z,
                                 !.replica = 4]
         ELSE UNCHANGED cr
    /\ UNCHANGED <<plan, defaultSc, created>>

\* Mutant: flexible scaling without the "not arbiter_deployment" test.
FlexibleOverlayWithArbiter ==
    /\ Go("flexible")
    /\ cr' = IF plan.localStorage /\ plan.ocs >= 7 /\ plan.zones < 3
             THEN [cr EXCEPT !.flexibleScaling = TRUE, !.count = 3,
                             !.replica = 1]
             ELSE cr
    /\ UNCHANGED <<plan, defaultSc, created>>

\* Lines 826-836: flexible scaling on LSO with fewer than 3 zones.
FlexibleOverlay ==
    /\ Go("flexible")
    /\ cr' = IF /\ plan.localStorage
                /\ plan.ocs >= 7
                /\ plan.zones < 3
                /\ ~plan.arbiter
             THEN [cr EXCEPT !.flexibleScaling = TRUE, !.count = 3,
                             !.replica = 1]
             ELSE cr
    /\ UNCHANGED <<plan, defaultSc, created>>

\* Mutant: the device size written without its "Gi" unit.
RequestOverlayNoUnit ==
    /\ Go("request")
    /\ cr' = [cr EXCEPT !.request = [n |-> plan.deviceSize]]
    /\ UNCHANGED <<plan, defaultSc, created>>

\* Lines 838-856: the storage request, then the default storage class.
RequestOverlay ==
    /\ Go("request")
    /\ LET request == IF plan.platform = "baremetal"
                      THEN FirstSorted(plan.pvSizes)
                      ELSE [n |-> plan.deviceSize, unit |-> "Gi"]
           sc == IF defaultSc # "none" THEN defaultSc ELSE cr.storageClass
       IN  cr' = [cr EXCEPT !.request = request, !.storageClass = sc]
    /\ UNCHANGED <<plan, defaultSc, created>>

\* Lines 858-892: LSO tweaks of the device set.
LsoOverlay ==
    /\ Go("lso")
    /\ LET count1 == IF plan.platform = "aws" /\ plan.lsoType # "ebs"
                     THEN 2 ELSE cr.count
           count2 == IF plan.lsoCount # 0 THEN plan.lsoCount ELSE count1
           res == IF plan.ocs >= 5 /\ plan.i3 THEN "i3" ELSE cr.dsResources
       IN  cr' = IF plan.localStorage
                 THEN [cr EXCEPT !.storageClass = "lso", !.count = count2,
                                 !.dsResources = res]
                 ELSE cr
    /\ UNCHANGED <<plan, defaultSc, created>>

\* Mutant: the lowered requirements leave the device-set resources alone.
ResourcesOverlayKeepsDeviceSet ==
    /\ Go("resources")
    /\ cr' = IF plan.lowerReq
             THEN [cr EXCEPT !.resources = IF plan.ocs >= 5
                                           THEN "lowered_endpoint"
                                           ELSE "lowered"]
             ELSE IF plan.localStorage /\ plan.platform = "aws"
             THEN [cr EXCEPT !.resources = IF plan.ocs < 5 THEN "mds_noobaa"
                                           ELSE "mds"]
             ELSE cr
    /\ UNCHANGED <<plan, defaultSc, created>>

\* Lines 894-937: lower instance requirements, else the AWS LSO preset.
ResourcesOverlay ==
    /\ Go("resources")
    /\ cr' = IF plan.lowerReq
             THEN [cr EXCEPT !.dsResources = "none",
                     !.resources = IF plan.ocs >= 5 THEN "lowered_endpoint"
                                   ELSE "lowered"]
             ELSE IF plan.localStorage /\ plan.platform = "aws"
             THEN [cr EXCEPT !.resources = IF plan.ocs < 5 THEN "mds_noobaa"
                                           ELSE "mds"]
             ELSE cr
    /\ UNCHANGED <<plan, defaultSc, created>>

\* Mutant: the KMS key added before the 4.10 block replaces the encryption.
EncryptionOverlayKmsFirst ==
    /\ Go("encryption")
    /\ LET enc == IF plan.ocs >= 10 THEN {"clusterWide"}
                  ELSE IF plan.kms THEN {"enable", "kms"} ELSE {"enable"}
       IN  cr' = IF plan.encryption THEN [cr EXCEPT !.encryption = enc]
                 ELSE cr
    /\ UNCHANGED <<plan, defaultSc, created>>

\* Lines 939-975: host network, IBM mon PVC, encryption at rest.
EncryptionOverlay ==
    /\ Go("encryption")
    /\ LET base == IF plan.ocs >= 10 THEN {"clusterWide"} ELSE {"enable"}
           enc == IF plan.kms THEN base \cup {"kms"} ELSE base
       IN  cr' = IF plan.encryption THEN [cr EXCEPT !.encryption = enc]
                 ELSE cr
    /\ UNCHANGED <<plan, defaultSc, created>>

\* Lines 977-988: ceph debug replaces managedResources; multus network.
CephDebugOverlay ==
    /\ Go("ceph_debug")
    /\ cr' = IF plan.cephDebug THEN [cr EXCEPT !.ignored = {"cephConfig"}]
             ELSE cr
    /\ UNCHANGED <<plan, defaultSc, created>>

\* Lines 990-994: dump cluster_data and create the StorageCluster.
Create ==
    /\ Go("create")
    /\ created' = TRUE
    /\ UNCHANGED <<plan, defaultSc, cr>>

\* Lines 995-1000: annotate the namespace for infra nodes.
Infra ==
    /\ Go("infra")
    /\ UNCHANGED <<plan, defaultSc, cr, created>>

Composer ==
    \/ \E s \in DOMAIN After : Raise(s)
    \/ Command \/ CustomSc \/ McgOnly \/ ComponentsOverlay \/ ArbiterOverlay
    \/ FlexibleOverlay \/ RequestOverlay \/ LsoOverlay \/ ResourcesOverlay
    \/ EncryptionOverlay \/ CephDebugOverlay \/ Create \/ Infra

Next == Composer

Spec == Init /\ [][Next]_vars

-----------------------------------------------------------------------------
(* Properties                                                              *)

\* Every variable keeps its type.
TypeOK ==
    /\ plan \in Plans
    /\ pc \in Steps \cup {"failed", "returned"}
    /\ failedAt \in DOMAIN After \cup {"none"}
    /\ defaultSc \in {"none", "platform", "custom"}
    /\ cr \in CR
    /\ created \in BOOLEAN

(***************************************************************************)
(* The device set the code creates matches its topology: an arbiter        *)
(* cluster is never flexibly scaled and keeps replica 4 (the arbiter       *)
(* overlay, lines 809-816, and the flexible-scaling guard, 827-833, read   *)
(* arbiter_deployment separately), a flexibly scaled one has replica 1 and *)
(* any other keeps the template's 3; no later overlay rewrites replica.   *)
(***************************************************************************)
DeviceSetMatchesTopology ==
    created =>
        /\ cr.arbiter => ~cr.flexibleScaling /\ cr.replica = 4
        /\ cr.flexibleScaling => cr.replica = 1
        /\ ~cr.arbiter /\ ~cr.flexibleScaling => cr.replica = 3

(***************************************************************************)
(* With allow_lower_instance_requirements the created StorageCluster has  *)
(* no device-set limits and the lowered resource list, whatever presets    *)
(* the LSO tweaks (the i3 limits, lines 874-884) or the AWS LSO branch     *)
(* would have set: the override wins over every preset.                    *)
(***************************************************************************)
LowerRequirementsWin ==
    created /\ plan.lowerReq =>
        /\ cr.dsResources = "none"
        /\ cr.resources \in {"lowered", "lowered_endpoint"}

(***************************************************************************)
(* Encryption at rest asked for is enabled in the created StorageCluster  *)
(* (enable before 4.10, clusterWide from 4.10 on), and it names the KMS   *)
(* exactly when a KMS was deployed (line 767): the 4.10 replacement of the *)
(* encryption block (line 968) must not drop the KMS key added after it.  *)
(***************************************************************************)
EncryptionHonoured ==
    created /\ plan.encryption =>
        /\ cr.encryption \cap {"enable", "clusterWide"} # {}
        /\ ("kms" \in cr.encryption) = plan.kms

(***************************************************************************)
(* Every component disabled on the command line or in the config file is *)
(* left alone by the operator (reconcileStrategy ignore) in the created    *)
(* StorageCluster: the spec gives the disable map (rule 1) and says later *)
(* overlays merge into it.                                                 *)
(***************************************************************************)
DisabledComponentsIgnored ==
    created =>
        \A c \in Disabled :
            IF c = "noobaa" THEN cr.mcgIgnore
            ELSE ComponentsMap[c] \in cr.ignored
====
