------------------------- MODULE CatalogSourceProofs -------------------------
(***************************************************************************)
(* Proofs about create_catalog_source, for every set of image strings and *)
(* every configuration CatalogAssumption allows, against every behaviour  *)
(* of the machine config pools and the catalog operator: the state keeps  *)
(* its types, a stage catalog source is applied only after the image      *)
(* content source policy rolled out, and a tagged source image reaches    *)
(* spec.image as the same reference.                                      *)
(***************************************************************************)
EXTENDS CatalogSource, SequenceTheorems, TLAPS

\* The steps of the stage branch after the pool wait, up to the apply.
PostRollout == {"resolve", "secret", "apply"}

(***************************************************************************)
(* The inductive invariant.  A stage run reaches the image resolution     *)
(* only through the pool wait, whose hit needs the pools settled; the     *)
(* pools never go back, the policy is never removed, and the catalog      *)
(* source is applied once, from the image the configuration determines,   *)
(* after which nothing rewrites it.                                       *)
(***************************************************************************)
StageRolledOut == stage /\ pc \in PostRollout => icsp /\ mcpSettled
PolicyKept == pc = "mcp" => icsp
AppliedOnce ==
    csImage # NoImage =>
        /\ pc \in {"ready_wait", "done", "failed"}
        /\ csImage = CatalogImage(arg, reg, stage, ds)

Rest == StageRolledOut /\ PolicyKept /\ AppliedOnce /\ StageAppliedAfterRollout

IInv == TypeOK /\ Rest

USE CatalogAssumption

\* str.rsplit(":", 1) of an image string gives an image string and a tag.
LEMMA RSplitType ==
    ASSUME NEW x \in Seq(STRING)
    PROVE  /\ RSplit(x).image \in Seq(STRING)
           /\ RSplit(x).tag \in STRING
<1>1. NoTag \in STRING
  BY CatalogAssumption DEF NoTag
<1>2. CASE Len(x) >= 2
  <2>1. /\ SubSeq(x, 1, Len(x) - 1) \in Seq(STRING)
        /\ x[Len(x)] \in STRING
    BY <1>2, LenProperties, SubSeqProperties
  <2>. QED
    BY <1>2, <2>1 DEF RSplit
<1>3. CASE ~(Len(x) >= 2)
  BY <1>1, <1>3 DEF RSplit
<1>. QED
  BY <1>2, <1>3

LEMMA SourceImageType ==
    ASSUME NEW a \in Seq(STRING), NEW r \in Seq(STRING), NEW st \in BOOLEAN
    PROVE  SourceImage(a, r, st) \in Seq(STRING)
BY AppendProperties DEF SourceImage

\* The image the catalog source is applied with is an image string.
LEMMA CatalogImageType ==
    ASSUME NEW a \in Seq(STRING), NEW r \in Seq(STRING), NEW st \in BOOLEAN,
           NEW d \in BOOLEAN
    PROVE  CatalogImage(a, r, st, d) \in Seq(STRING)
<1>1. SourceImage(a, r, st) \in Seq(STRING)
  BY SourceImageType
<1>2. /\ RSplit(SourceImage(a, r, st)).image \in Seq(STRING)
      /\ RSplit(SourceImage(a, r, st)).tag \in STRING
      /\ RSplit(DefaultImage).image \in Seq(STRING)
  BY <1>1, RSplitType
<1>3. ResolvedTag(a, r, st, d) \in STRING
  BY <1>2 DEF ResolvedTag
<1>4. "latest" \in STRING
  OBVIOUS
<1>. QED
  BY <1>2, <1>3, <1>4, AppendProperties DEF CatalogImage, NoTag

\* Cutting off the element Append added gives the sequence back.
LEMMA SubSeqAppend ==
    ASSUME NEW x \in Seq(STRING), NEW e \in STRING
    PROVE  /\ Len(Append(x, e)) = Len(x) + 1
           /\ Append(x, e)[Len(x) + 1] = e
           /\ SubSeq(Append(x, e), 1, Len(x)) = x
<1>1. /\ Append(x, e) \in Seq(STRING)
      /\ Len(Append(x, e)) = Len(x) + 1
      /\ \A i \in 1..Len(x) : Append(x, e)[i] = x[i]
      /\ Append(x, e)[Len(x) + 1] = e
  BY AppendProperties
<1>2. /\ SubSeq(Append(x, e), 1, Len(x)) \in Seq(STRING)
      /\ Len(SubSeq(Append(x, e), 1, Len(x))) = Len(x)
      /\ \A i \in 1..Len(x) : SubSeq(Append(x, e), 1, Len(x))[i] = Append(x, e)[i]
  <2>1. \A i \in 1..Len(x) : Append(x, e)[i] \in STRING
    BY <1>1, LenProperties
  <2>. QED
    BY <2>1, LenProperties, SubSeqProperties
<1>3. SubSeq(Append(x, e), 1, Len(x)) = x
  BY <1>1, <1>2, SeqEqual
<1>. QED
  BY <1>1, <1>3

\* The configured source images that carry a tag name a repository: the
\* text before the last ":" is not empty.  (For ":4.10" the code drops the
\* empty repository and takes the default registry image instead.)
RepoNamed(x) == Len(x) >= 2 => SubSeq(x, 1, Len(x) - 1) # Empty

\* A tagged source image reaches spec.image as the same reference: the
\* code's rsplit and f-string agree with the reference reading whenever
\* the tag holds no "/".
LEMMA CatalogImageRef ==
    ASSUME NEW a \in Seq(STRING), NEW r \in Seq(STRING), NEW st \in BOOLEAN,
           NEW d \in BOOLEAN,
           RepoNamed(SourceImage(a, r, st)),
           RefTag(SourceImage(a, r, st)) # NoTag
    PROVE  /\ RefRepo(CatalogImage(a, r, st, d)) = RefRepo(SourceImage(a, r, st))
           /\ RefTag(CatalogImage(a, r, st, d)) = RefTag(SourceImage(a, r, st))
<1> DEFINE src == SourceImage(a, r, st)
           n == Len(src)
           img == SubSeq(src, 1, n - 1)
           t == src[n]
<1>1. src \in Seq(STRING) /\ n \in Nat
  BY SourceImageType, LenProperties
<1>2. n >= 2 /\ ~HasSlash(t) /\ t # NoTag
  BY DEF RefTag
<1>3. img \in Seq(STRING) /\ Len(img) = n - 1 /\ t \in STRING
  BY <1>1, <1>2, LenProperties, SubSeqProperties
<1>4. img # Empty
  BY <1>2 DEF RepoNamed
<1>5. RSplit(src) = [image |-> img, tag |-> t]
  BY <1>2 DEF RSplit
<1>6. ResolvedTag(a, r, st, d) = t
  BY <1>2, <1>5 DEF ResolvedTag
<1>7. CatalogImage(a, r, st, d) = Append(img, t)
  BY <1>2, <1>4, <1>5, <1>6 DEF CatalogImage
<1>8. /\ Len(Append(img, t)) = n
      /\ Append(img, t)[n] = t
      /\ SubSeq(Append(img, t), 1, n - 1) = img
  BY <1>1, <1>2, <1>3, SubSeqAppend
<1>9. RefTag(Append(img, t)) = t /\ RefRepo(Append(img, t)) = img
  BY <1>2, <1>8 DEF RefTag, RefRepo
<1>10. RefTag(src) = t /\ RefRepo(src) = img
  BY <1>2 DEF RefTag, RefRepo
<1>. QED
  BY <1>7, <1>9, <1>10

-----------------------------------------------------------------------------
USE DEF Rest, StageRolledOut, PolicyKept, AppliedOnce,
        StageAppliedAfterRollout, PostRollout, Steps, NoImage

LEMMA InitIInv == Init => IInv
<1>. SUFFICES ASSUME Init PROVE IInv
  OBVIOUS
<1>1. NoImage \in Seq(STRING)
  BY DEF NoImage
<1>2. 0 \in 0..MaxPolls
  OBVIOUS
<1>3. TypeOK
  BY <1>1, <1>2 DEF Init, TypeOK
<1>4. Rest
  BY DEF Init
<1>. QED
  BY <1>3, <1>4 DEF IInv

\* An exception changes the step and nothing else.
LEMMA RaiseKeeps ==
    ASSUME IInv, Raise, pc \in Steps
    PROVE  IInv'
<1>1. TypeOK'
  BY DEF IInv, TypeOK, Raise, cfgVars, envVars
<1>2. Rest'
  BY DEF IInv, Raise, cfgVars, envVars
<1>. QED
  BY <1>1, <1>2 DEF IInv

\* A hit, a miss and a timeout of a bounded wait outside the apply.
LEMMA WaitKeeps ==
    ASSUME IInv, NEW st, NEW cond, NEW nxt \in Steps, Wait(st, cond, nxt),
           st \in {"mcp", "ready_wait"},
           st = "mcp" => nxt = "resolve" /\ cond = mcpSettled,
           st = "ready_wait" => nxt = "done"
    PROVE  IInv'
<1>1. /\ pc = st
      /\ UNCHANGED <<cfgVars, defaultOff, icsp, secret, csImage,
                     appliedSettled, envVars>>
  BY DEF Wait
<1>2. CASE cond /\ pc' = nxt /\ polls' = 0 /\ UNCHANGED failedAt
  <2>1. TypeOK'
    BY <1>1, <1>2 DEF IInv, TypeOK, cfgVars, envVars
  <2>2. Rest'
    BY <1>1, <1>2 DEF IInv, cfgVars, envVars
  <2>. QED
    BY <2>1, <2>2 DEF IInv
<1>3. CASE polls < MaxPolls /\ polls' = polls + 1 /\ UNCHANGED <<pc, failedAt>>
  <2>1. TypeOK'
    BY <1>1, <1>3 DEF IInv, TypeOK, cfgVars, envVars
  <2>2. Rest'
    BY <1>1, <1>3 DEF IInv, cfgVars, envVars
  <2>. QED
    BY <2>1, <2>2 DEF IInv
<1>4. CASE pc' = "failed" /\ failedAt' = st /\ UNCHANGED polls
  <2>1. TypeOK'
    BY <1>1, <1>4 DEF IInv, TypeOK, cfgVars, envVars
  <2>2. Rest'
    BY <1>1, <1>4 DEF IInv, cfgVars, envVars
  <2>. QED
    BY <2>1, <2>2 DEF IInv
<1>. QED
  BY <1>2, <1>3, <1>4 DEF Wait

LEMMA DisableDefaultKeeps ==
    ASSUME IInv, DisableDefault PROVE IInv'
<1>1. CASE /\ pc = "disable" /\ defaultOff' = TRUE
           /\ pc' = IF stage THEN "stage_patch" ELSE "resolve"
           /\ UNCHANGED <<cfgVars, failedAt, polls, icsp, secret, csImage,
                          appliedSettled, envVars>>
  <2>1. TypeOK'
    BY <1>1 DEF IInv, TypeOK, cfgVars, envVars
  <2>2. Rest'
    BY <1>1 DEF IInv, cfgVars, envVars
  <2>. QED
    BY <2>1, <2>2 DEF IInv
<1>. QED
  BY <1>1, RaiseKeeps DEF DisableDefault, IInv, TypeOK

LEMMA StagePatchKeeps ==
    ASSUME IInv, StagePatch PROVE IInv'
<1>1. CASE /\ pc = "stage_patch" /\ pc' = "icsp"
           /\ UNCHANGED <<cfgVars, failedAt, polls, defaultOff, icsp, secret,
                          csImage, appliedSettled, envVars>>
  <2>1. TypeOK'
    BY <1>1 DEF IInv, TypeOK, cfgVars, envVars
  <2>2. Rest'
    BY <1>1 DEF IInv, cfgVars, envVars
  <2>. QED
    BY <2>1, <2>2 DEF IInv
<1>. QED
  BY <1>1, RaiseKeeps DEF StagePatch, Go, IInv, TypeOK

LEMMA ApplyIcspKeeps ==
    ASSUME IInv, ApplyIcsp PROVE IInv'
<1>1. CASE /\ pc = "icsp" /\ icsp' = TRUE /\ pc' = "mcp"
           /\ UNCHANGED <<cfgVars, failedAt, polls, defaultOff, secret,
                          csImage, appliedSettled, envVars>>
  <2>1. TypeOK'
    BY <1>1 DEF IInv, TypeOK, cfgVars, envVars
  <2>2. Rest'
    BY <1>1 DEF IInv, cfgVars, envVars
  <2>. QED
    BY <2>1, <2>2 DEF IInv
<1>. QED
  BY <1>1, RaiseKeeps DEF ApplyIcsp, IInv, TypeOK

LEMMA WaitMcpKeeps ==
    ASSUME IInv, WaitMcp PROVE IInv'
BY WaitKeeps DEF WaitMcp

LEMMA WaitReadyKeeps ==
    ASSUME IInv, WaitReady PROVE IInv'
BY WaitKeeps DEF WaitReady

LEMMA ResolveKeeps ==
    ASSUME IInv, Resolve PROVE IInv'
<1>1. CASE /\ pc = "resolve" /\ pc' = IF ibm THEN "secret" ELSE "apply"
           /\ UNCHANGED <<cfgVars, failedAt, polls, defaultOff, icsp, secret,
                          csImage, appliedSettled, envVars>>
  <2>1. TypeOK'
    BY <1>1 DEF IInv, TypeOK, cfgVars, envVars
  <2>2. Rest'
    BY <1>1 DEF IInv, cfgVars, envVars
  <2>. QED
    BY <2>1, <2>2 DEF IInv
<1>. QED
  BY <1>1, RaiseKeeps DEF Resolve, IInv, TypeOK

LEMMA CreateSecretKeeps ==
    ASSUME IInv, CreateSecret PROVE IInv'
<1>1. CASE /\ pc = "secret" /\ secret' = TRUE /\ pc' = "apply"
           /\ UNCHANGED <<cfgVars, failedAt, polls, defaultOff, icsp,
                          csImage, appliedSettled, envVars>>
  <2>1. TypeOK'
    BY <1>1 DEF IInv, TypeOK, cfgVars, envVars
  <2>2. Rest'
    BY <1>1 DEF IInv, cfgVars, envVars
  <2>. QED
    BY <2>1, <2>2 DEF IInv
<1>. QED
  BY <1>1, RaiseKeeps DEF CreateSecret, IInv, TypeOK

\* The apply reads the pools' state once, after the stage wait has passed.
LEMMA ApplyKeeps ==
    ASSUME IInv, Apply PROVE IInv'
<1>1. CASE /\ pc = "apply"
           /\ csImage' = CatalogImage(arg, reg, stage, ds)
           /\ appliedSettled' = mcpSettled
           /\ pc' = "ready_wait"
           /\ UNCHANGED <<cfgVars, failedAt, polls, defaultOff, icsp, secret,
                          envVars>>
  <2>1. CatalogImage(arg, reg, stage, ds) \in Seq(STRING)
    <3>1. arg \in Seq(STRING) /\ reg \in Seq(STRING)
      BY DEF IInv, TypeOK
    <3>. QED
      BY <3>1, CatalogImageType DEF IInv, TypeOK
  <2>2. TypeOK'
    BY <1>1, <2>1 DEF IInv, TypeOK, cfgVars, envVars
  <2>3. stage => icsp /\ mcpSettled
    BY <1>1 DEF IInv
  <2>4. Rest'
    BY <1>1, <2>3 DEF IInv, cfgVars, envVars
  <2>. QED
    BY <2>2, <2>4 DEF IInv
<1>. QED
  BY <1>1, RaiseKeeps DEF Apply, IInv, TypeOK

LEMMA McpRolloutKeeps ==
    ASSUME IInv, McpRollout PROVE IInv'
<1>1. TypeOK'
  BY DEF IInv, TypeOK, McpRollout, cfgVars
<1>2. Rest'
  BY DEF IInv, McpRollout, cfgVars
<1>. QED
  BY <1>1, <1>2 DEF IInv

LEMMA CatalogServesKeeps ==
    ASSUME IInv, CatalogServes PROVE IInv'
<1>1. TypeOK'
  BY DEF IInv, TypeOK, CatalogServes, cfgVars
<1>2. Rest'
  BY DEF IInv, CatalogServes, cfgVars
<1>. QED
  BY <1>1, <1>2 DEF IInv

LEMMA NextIInv == IInv /\ [Next]_vars => IInv'
<1>. SUFFICES ASSUME IInv, [Next]_vars PROVE IInv'
  OBVIOUS
<1>1. CASE UNCHANGED vars
  BY <1>1 DEF IInv, TypeOK, vars, cfgVars, envVars
<1>. QED
  BY <1>1, DisableDefaultKeeps, StagePatchKeeps, ApplyIcspKeeps,
     WaitMcpKeeps, ResolveKeeps, CreateSecretKeeps, ApplyKeeps,
     WaitReadyKeeps, McpRolloutKeeps, CatalogServesKeeps
  DEF Next, Creator

-----------------------------------------------------------------------------
(* The theorems.                                                           *)

\* The variables of create_catalog_source keep their types in every step.
THEOREM TypeCorrect == Spec => []TypeOK
<1>1. IInv => TypeOK
  BY DEF IInv
<1>. QED
  BY <1>1, InitIInv, NextIInv, PTL DEF Spec

\* A stage catalog source is applied only once the image content source
\* policy is in place and the machine config pools have rolled it out:
\* the wait_for_machineconfigpool_status step always precedes the apply.
THEOREM StageSafe == Spec => []StageAppliedAfterRollout
<1>1. IInv => StageAppliedAfterRollout
  BY DEF IInv
<1>. QED
  BY <1>1, InitIInv, NextIInv, PTL DEF Spec

(* Every image string the deployment can be given names a repository      *)
(* before its last ":".  An argument such as ":4.10" does not, and then    *)
(* the code substitutes the default registry image.                        *)
RepoNamedSources ==
    \A a \in ImageArgs, r \in RegistryImages, st \in BOOLEAN :
        RepoNamed(SourceImage(a, r, st))

\* When every configured image names its repository, the catalog source
\* built by create_catalog_source points at the tagged reference it was
\* asked for: the rsplit on ":" and the f-string rebuild agree with the
\* reference reading of an image, registry ports included.
THEOREM ImageRefSafe ==
    ASSUME RepoNamedSources
    PROVE  Spec => []ImageRefPreserved
<1>1. IInv => ImageRefPreserved
  <2>. SUFFICES ASSUME IInv,
                       csImage # NoImage,
                       RefTag(SourceImage(arg, reg, stage)) # NoTag
                PROVE  /\ RefRepo(csImage) = RefRepo(SourceImage(arg, reg, stage))
                       /\ RefTag(csImage) = RefTag(SourceImage(arg, reg, stage))
    BY DEF ImageRefPreserved
  <2>1. /\ arg \in ImageArgs /\ reg \in RegistryImages
        /\ stage \in BOOLEAN /\ ds \in BOOLEAN
    BY DEF IInv, TypeOK
  <2>2. csImage = CatalogImage(arg, reg, stage, ds)
    BY DEF IInv
  <2>3. RepoNamed(SourceImage(arg, reg, stage))
    BY <2>1 DEF RepoNamedSources
  <2>. QED
    BY <2>1, <2>2, <2>3, CatalogImageRef
<1>. QED
  BY <1>1, InitIInv, NextIInv, PTL DEF Spec

=============================================================================
