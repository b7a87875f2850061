---------------------------- MODULE CatalogSource ----------------------------
(***************************************************************************)
(* create_catalog_source: disable the default redhat-operators source,     *)
(* for a stage (OSBS) index patch the insecure registries, apply the image *)
(* content source policy and wait for the machine config pools, work out  *)
(* the index image and its tag, create the IBM Cloud pull secret, apply    *)
(* the catalog source and wait for it to be READY.                         *)
(*                                                                         *)
(* An image reference is a string; it is modelled as the sequence of its   *)
(* ":"-separated parts, so that "quay.io/ocs-registry:4.10" is             *)
(* <<"quay.io/ocs-registry", "4.10">> and the empty string is <<"">>.      *)
(* str.rsplit(":", 1) and f"{image}:{tag}" are then operations on these    *)
(* sequences.  The cluster (machine config pools rolling out, the catalog  *)
(* operator serving the index) is the environment.                         *)
(***************************************************************************)
EXTENDS Naturals, Sequences

CONSTANTS
    ImageArgs,       \* values of the image argument, <<"">> for None
    RegistryImages,  \* values of DEPLOYMENT["ocs_registry_image"], <<"">> unset
    StageIndexImage, \* DEPLOYMENT["stage_index_image"] or OSBS_BOUNDLE_IMAGE
    StageTag,        \* stage_index_image_tag, or f"v{ocp_version}"
    DefaultImage,    \* DEPLOYMENT["default_ocs_registry_image"]
    TemplateImage,   \* spec.image of the catalog source template
    LatestTag,       \* what get_latest_ds_olm_tag answers
    HasSlash(_),     \* the part of an image string contains a "/"
    MaxPolls         \* misses a poll tolerates before its timeout

ASSUME CatalogAssumption ==
    /\ ImageArgs \subseteq Seq(STRING) /\ RegistryImages \subseteq Seq(STRING)
    /\ StageIndexImage \in Seq(STRING) /\ DefaultImage \in Seq(STRING)
    /\ TemplateImage \in Seq(STRING)
    /\ StageTag \in STRING /\ LatestTag \in STRING
    /\ {"none", "latest"} \subseteq STRING  \* NoTag and the fallback tag
    /\ MaxPolls \in Nat

(* The empty string, and image_tag = None.                                 *)
Empty == <<"">>
NoTag == "none"
NoImage == <<>>

Steps == {"disable", "stage_patch", "icsp", "mcp", "resolve", "secret",
          "apply", "ready_wait", "done", "failed"}

VARIABLES
    arg,            \* the image argument of create_catalog_source
    reg,            \* DEPLOYMENT["ocs_registry_image"]
    stage,          \* DEPLOYMENT["stage_rh_osbs"]
    ds,             \* REPORTING["us_ds"] = "DS"
    ibm,            \* the platform is IBM Cloud
    pc,             \* the step of create_catalog_source
    failedAt,       \* the step whose exception ended it, or "none"
    polls,          \* misses of the current bounded wait
    defaultOff,     \* the default redhat-operators source is disabled
    icsp,           \* the stage image content source policy is applied
    mcpSettled,     \* the machine config pools finished their rollout
    secret,         \* the IBM Cloud pull secret exists
    csImage,        \* spec.image of the applied catalog source, or NoImage
    appliedSettled, \* the pools had settled when the catalog was applied
    csReady         \* the catalog source reports READY

cfgVars == <<arg, reg, stage, ds, ibm>>
envVars == <<mcpSettled, csReady>>
vars == <<cfgVars, pc, failedAt, polls, defaultOff, icsp, secret, csImage,
          appliedSettled, envVars>>

-----------------------------------------------------------------------------
(* The image the catalog source is built from.                             *)

(* Fault model: the length test of the split off by one.                  *)
RSplitOffByOne(s) ==
    IF Len(s) >= 3
    THEN [image |-> SubSeq(s, 1, Len(s) - 1), tag |-> s[Len(s)]]
    ELSE [image |-> s, tag |-> NoTag]

(* str.rsplit(":", 1): the last part is the tag when there is a colon.     *)
RSplit(s) ==
    IF Len(s) >= 2
    THEN [image |-> SubSeq(s, 1, Len(s) - 1), tag |-> s[Len(s)]]
    ELSE [image |-> s, tag |-> NoTag]

(* The image string before the split: the argument or the configured       *)
(* registry image; for a stage deployment the stage index with its tag.    *)
SourceImage(a, r, st) ==
    IF st THEN Append(StageIndexImage, StageTag)
    ELSE IF a # Empty THEN a ELSE r

(* image_tag, with the latest downstream tag looked up when there is none. *)
ResolvedTag(a, r, st, d) ==
    LET t == RSplit(SourceImage(a, r, st)).tag
    IN  IF t = NoTag /\ d THEN LatestTag ELSE t

(* spec.image of the catalog source: change_cs_condition holds when there  *)
(* is an image or a tag (the template is the redhat-operators              *)
(* CatalogSource); an empty image falls back to the default registry image *)
(* and a missing tag to "latest".                                          *)
CatalogImage(a, r, st, d) ==
    LET img == RSplit(SourceImage(a, r, st)).image
        tag == ResolvedTag(a, r, st, d)
    IN  IF img # Empty \/ tag # NoTag
        THEN Append(IF img # Empty THEN img ELSE RSplit(DefaultImage).image,
                    IF tag # NoTag THEN tag ELSE "latest")
        ELSE TemplateImage

(* The reference definition: how a container image reference is read.  A  *)
(* tag is the text after the last ":" when it holds no "/" (a ":" before a *)
(* "/" separates a registry port).                                         *)
RefTag(s) ==
    IF Len(s) >= 2 /\ ~HasSlash(s[Len(s)]) THEN s[Len(s)] ELSE NoTag
RefRepo(s) ==
    IF Len(s) >= 2 /\ ~HasSlash(s[Len(s)]) THEN SubSeq(s, 1, Len(s) - 1)
    ELSE s

-----------------------------------------------------------------------------
Init ==
    /\ arg \in ImageArgs
    /\ reg \in RegistryImages
    /\ stage \in BOOLEAN /\ ds \in BOOLEAN /\ ibm \in BOOLEAN
    /\ pc = "disable"
    /\ failedAt = "none"
    /\ polls = 0
    /\ defaultOff = FALSE /\ icsp = FALSE /\ mcpSettled = FALSE
    /\ secret = FALSE
    /\ csImage = NoImage /\ appliedSettled = FALSE /\ csReady = FALSE

(* An exception out of create_catalog_source.                              *)
Raise ==
    /\ pc' = "failed" /\ failedAt' = pc
    /\ UNCHANGED <<cfgVars, polls, defaultOff, icsp, secret, csImage,
                   appliedSettled, envVars>>

(* A remote command of step s that goes on to nxt or raises CommandFailed. *)
Go(s, nxt) ==
    /\ pc = s
    /\ \/ /\ pc' = nxt
          /\ UNCHANGED <<cfgVars, failedAt, polls, defaultOff, icsp, secret,
                         csImage, appliedSettled, envVars>>
       \/ Raise

(* Fault model: the timeout test one sample late.                         *)
WaitPastMax(s, cond, nxt) ==
    /\ pc = s
    /\ \/ /\ cond /\ pc' = nxt /\ polls' = 0
          /\ UNCHANGED failedAt
       \/ /\ ~cond /\ polls <= MaxPolls /\ polls' = polls + 1
          /\ UNCHANGED <<pc, failedAt>>
       \/ /\ ~cond /\ polls > MaxPolls
          /\ pc' = "failed" /\ failedAt' = s
          /\ UNCHANGED polls
    /\ UNCHANGED <<cfgVars, defaultOff, icsp, secret, csImage,
                   appliedSettled, envVars>>

(* Fault model: a miss that does not count towards the timeout.           *)
WaitNoCount(s, cond, nxt) ==
    /\ pc = s
    /\ \/ /\ cond /\ pc' = nxt /\ polls' = 0
          /\ UNCHANGED failedAt
       \/ /\ ~cond
          /\ UNCHANGED <<pc, failedAt, polls>>
    /\ UNCHANGED <<cfgVars, defaultOff, icsp, secret, csImage,
                   appliedSettled, envVars>>

(* A bounded wait of step s for cond.                                      *)
Wait(s, cond, nxt) ==
    /\ pc = s
    /\ \/ /\ cond /\ pc' = nxt /\ polls' = 0
          /\ UNCHANGED failedAt
       \/ /\ ~cond /\ polls < MaxPolls /\ polls' = polls + 1
          /\ UNCHANGED <<pc, failedAt>>
       \/ /\ ~cond /\ polls = MaxPolls
          /\ pc' = "failed" /\ failedAt' = s
          /\ UNCHANGED polls
    /\ UNCHANGED <<cfgVars, defaultOff, icsp, secret, csImage,
                   appliedSettled, envVars>>

(* disable_specific_source(redhat-operators).                              *)
DisableDefault ==
    /\ pc = "disable"
    /\ \/ /\ defaultOff' = TRUE
          /\ pc' = IF stage THEN "stage_patch" ELSE "resolve"
          /\ UNCHANGED <<cfgVars, failedAt, polls, icsp, secret, csImage,
                         appliedSettled, envVars>>
       \/ Raise

(* oc patch image.config.openshift.io/cluster: the insecure registries.    *)
StagePatch == Go("stage_patch", "icsp")

(* Fault model: the machine config pool wait left out.                     *)
ApplyIcspNoWait ==
    /\ pc = "icsp"
    /\ icsp' = TRUE /\ pc' = "resolve"
    /\ UNCHANGED <<cfgVars, failedAt, polls, defaultOff, secret, csImage,
                   appliedSettled, envVars>>

(* oc apply of the stage image content source policy.                      *)
ApplyIcsp ==
    /\ pc = "icsp"
    /\ \/ /\ icsp' = TRUE /\ pc' = "mcp"
          /\ UNCHANGED <<cfgVars, failedAt, polls, defaultOff, secret,
                         csImage, appliedSettled, envVars>>
       \/ Raise

(* wait_for_machineconfigpool_status("all", timeout=1800).                 *)
WaitMcp == Wait("mcp", mcpSettled, "resolve")

(* The image and tag are worked out; get_latest_ds_olm_tag, called when a  *)
(* downstream image has no tag, is a remote call that may raise.           *)
Resolve ==
    /\ pc = "resolve"
    /\ \/ /\ pc' = IF ibm THEN "secret" ELSE "apply"
          /\ UNCHANGED <<cfgVars, failedAt, polls, defaultOff, icsp, secret,
                         csImage, appliedSettled, envVars>>
       \/ /\ RSplit(SourceImage(arg, reg, stage)).tag = NoTag /\ ds
          /\ Raise

(* create_ocs_secret(MARKETPLACE_NAMESPACE) on IBM Cloud.                  *)
CreateSecret ==
    /\ pc = "secret"
    /\ \/ /\ secret' = TRUE /\ pc' = "apply"
          /\ UNCHANGED <<cfgVars, failedAt, polls, defaultOff, icsp,
                         csImage, appliedSettled, envVars>>
       \/ Raise

(* oc apply of the catalog source manifest.                                *)
Apply ==
    /\ pc = "apply"
    /\ \/ /\ csImage' = CatalogImage(arg, reg, stage, ds)
          /\ appliedSettled' = mcpSettled
          /\ pc' = "ready_wait"
          /\ UNCHANGED <<cfgVars, failedAt, polls, defaultOff, icsp, secret,
                         envVars>>
       \/ Raise

(* catalog_source.wait_for_state("READY").                                 *)
WaitReady == Wait("ready_wait", csReady, "done")

Creator ==
    \/ DisableDefault \/ StagePatch \/ ApplyIcsp \/ WaitMcp \/ Resolve
    \/ CreateSecret \/ Apply \/ WaitReady

(* The machine config pools roll out the image content source policy.     *)
McpRollout ==
    /\ icsp /\ ~mcpSettled
    /\ mcpSettled' = TRUE
    /\ UNCHANGED <<cfgVars, pc, failedAt, polls, defaultOff, icsp, secret,
                   csImage, appliedSettled, csReady>>

(* The catalog operator serves the index.  A stage index applied before   *)
(* the pools settled is pulled in an inconsistent state and never serves.  *)
CatalogServes ==
    /\ csImage # NoImage /\ ~csReady
    /\ stage => appliedSettled
    /\ csReady' = TRUE
    /\ UNCHANGED <<cfgVars, pc, failedAt, polls, defaultOff, icsp, secret,
                   csImage, appliedSettled, mcpSettled>>

Next == Creator \/ McpRollout \/ CatalogServes

(* create_catalog_source runs in the one deployment thread; the cluster    *)
(* makes no promise, the bounded waits end the run.                        *)
Spec == Init /\ [][Next]_vars /\ WF_vars(Creator)

-----------------------------------------------------------------------------
(* Properties.                                                             *)

TypeOK ==
    /\ arg \in ImageArgs /\ reg \in RegistryImages
    /\ stage \in BOOLEAN /\ ds \in BOOLEAN /\ ibm \in BOOLEAN
    /\ pc \in Steps /\ failedAt \in Steps \cup {"none"}
    /\ polls \in 0..MaxPolls
    /\ defaultOff \in BOOLEAN /\ icsp \in BOOLEAN /\ mcpSettled \in BOOLEAN
    /\ secret \in BOOLEAN /\ appliedSettled \in BOOLEAN /\ csReady \in BOOLEAN
    /\ csImage \in Seq(STRING)

(* The spec's blocking prerequisite of a stage index: the catalog source   *)
(* is applied only after the image content source policy has rolled out   *)
(* on the machine config pools.                                            *)
StageAppliedAfterRollout ==
    csImage # NoImage /\ stage => icsp /\ appliedSettled

(* The catalog source points at the image that was asked for: when the     *)
(* source image string carries a tag, spec.image is that same reference,   *)
(* read by the reference definition, whatever registry port it names.      *)
ImageRefPreserved ==
    LET src == SourceImage(arg, reg, stage)
    IN  csImage # NoImage /\ RefTag(src) # NoTag =>
            /\ RefRepo(csImage) = RefRepo(src)
            /\ RefTag(csImage) = RefTag(src)

(* create_catalog_source always ends, READY or with an exception.          *)
Terminates == <>(pc \in {"done", "failed"})

=============================================================================
