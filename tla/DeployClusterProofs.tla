------------------------- MODULE DeployClusterProofs -------------------------
(***************************************************************************)
(* Proofs about deploy_cluster and do_deploy_ocs of DeployCluster, for     *)
(* every MaxClusters: type correctness, and that a run ending done has     *)
(* storage on every non-hub cluster.                                       *)
(***************************************************************************)
EXTENDS DeployCluster, TLAPS

(* The phases deploy_cluster goes through before do_deploy_ocs.            *)
PreOcs == {"ocp", "netsplit", "acm", "lvmo", "submariner"}

(* The steps of deploy_ocs after the storage cluster was created.          *)
Installed == {"pods", "post", "health", "skew_retry", "patch_sc"}

(* The cluster c has a storage cluster, created by this run or found.      *)
HasStorage(c) == created[c] \/ cephExists[c]

(* The run creates storage only on non-hub clusters: the switch_ctx before *)
(* deploy_ocs targets the loop index, and the ACM hub is skipped.          *)
CreatedOnNonHub == \A c \in Clusters : created[c] => c \in NonHub

(* The inductive strengthening.  Inside deploy_ocs the active context is   *)
(* the loop index, a non-hub cluster within the configuration; every       *)
(* non-hub                                                                 *)
(* cluster below the loop index, and after the loop every non-hub cluster, *)
(* has storage.                                                            *)
IInv ==
    /\ TypeOK
    /\ acm < ncl
    /\ phase \in PreOcs => i = 0 /\ step = "next"
    /\ phase = "ocs" => i <= ncl
    /\ phase = "ocs" /\ step # "next" => ctx = i /\ i \in NonHub
    /\ phase = "ocs" /\ step \in Installed => HasStorage(ctx)
    /\ phase = "ocs" /\ "skip_ocs" \notin flags =>
           \A c \in NonHub : c < i => HasStorage(c)
    /\ phase \in {"verify", "rdr", "done"} /\ "skip_ocs" \notin flags =>
           \A c \in NonHub : HasStorage(c)
    /\ CreatedOnNonHub

LEMMA InitIInv == Init => IInv
<1> SUFFICES ASSUME Init PROVE IInv
  OBVIOUS
<1>1. /\ ncl \in 1..MaxClusters /\ acm \in 0..(ncl - 1)
      /\ ctx = 0 /\ i = 0
  BY DEF Init, DefaultCtx
<1>2. /\ acm \in Clusters /\ ctx \in Clusters /\ i \in 0..MaxClusters
      /\ acm < ncl
  BY <1>1, MaxClustersAssumption DEF Clusters
<1>3. /\ flags \subseteq Flags
      /\ cephExists \in [Clusters -> BOOLEAN]
      /\ phase \in Phases /\ failedIn \in Phases \cup {"none"}
      /\ step \in OcsSteps
      /\ created \in [Clusters -> BOOLEAN]
      /\ healthSeen \in [Clusters -> HealthResults]
      /\ verified \subseteq Clusters
  BY DEF Init, Phases, OcsSteps, HealthResults
<1>4. TypeOK
  BY <1>1, <1>2, <1>3 DEF TypeOK
<1>5. CreatedOnNonHub
  BY DEF Init, CreatedOnNonHub
<1>6. QED
  BY <1>2, <1>4, <1>5 DEF Init, IInv, PreOcs

(* The configuration never changes, and neither do the clusters storage    *)
(* goes to.                                                                *)
LEMMA NextKeepsConfig ==
    ASSUME [Next]_vars
    PROVE  UNCHANGED cfgVars /\ NonHub' = NonHub
<1>1. UNCHANGED cfgVars
  BY DEF Next, vars, DeployOcp, NetworkSplit, AcmHub, Lvmo, SubmarinerPhase,
         Phase, Raise, OcsLoop, OcsLoopUpTo, DeployOcs, OcsCheck, OcsReturn,
         OcsInstall, OcsPods, OcsPost, OcsHealth, OcsSkewRetry, OcsPatchSc,
         OcsStep, Verify, Rdr
<1>2. QED
  BY <1>1 DEF cfgVars, NonHub, multicluster

(* An exception ends the run: only the phase and failedIn change.          *)
LEMMA RaiseIInv ==
    ASSUME IInv, Raise
    PROVE  IInv'
<1>1. /\ phase' = "failed" /\ failedIn' \in Phases \cup {"none"}
      /\ UNCHANGED <<cfgVars, ctx, i, step, created, healthSeen, verified>>
  BY DEF Raise, IInv, TypeOK
<1>2. TypeOK'
  BY <1>1 DEF IInv, TypeOK, Phases, cfgVars
<1>3. CreatedOnNonHub'
  BY <1>1 DEF IInv, CreatedOnNonHub, NonHub, multicluster, cfgVars
<1>4. QED
  BY <1>1, <1>2, <1>3 DEF IInv, cfgVars, PreOcs

(* A phase of deploy_cluster before do_deploy_ocs goes on to the next one  *)
(* or raises, and touches nothing else.                                    *)
LEMMA PhaseIInv ==
    ASSUME IInv, NEW p \in PreOcs, NEW runs,
           NEW nextPhase \in PreOcs \cup {"ocs"},
           Phase(p, runs, nextPhase)
    PROVE  IInv'
<1>1. CASE Raise
  BY <1>1, RaiseIInv
<1>2. CASE /\ phase' = nextPhase
           /\ UNCHANGED <<cfgVars, failedIn, ctx, i, step, created,
                          healthSeen, verified>>
  <2>1. phase = p
    BY DEF Phase
  <2>2. i = 0 /\ step = "next"
    BY <2>1 DEF IInv
  <2>3. TypeOK'
    BY <1>2 DEF IInv, TypeOK, Phases, PreOcs, cfgVars
  <2>4. CreatedOnNonHub'
    BY <1>2 DEF IInv, CreatedOnNonHub, NonHub, multicluster, cfgVars
  <2>5. (phase' = "ocs" /\ "skip_ocs" \notin flags') =>
            \A c \in NonHub' : c < i' => HasStorage(c)'
    BY <1>2, <2>2 DEF NonHub, cfgVars
  <2>6. /\ phase' \in PreOcs \cup {"ocs"}
        /\ i' = 0 /\ step' = "next"
        /\ acm' < ncl' /\ i' <= ncl'
    BY <1>2, <2>2 DEF IInv, TypeOK, cfgVars
  <2>7. QED
    BY <2>3, <2>4, <2>5, <2>6 DEF IInv, PreOcs, Installed
<1>3. QED
  BY <1>1, <1>2 DEF Phase

(* At the loop head of do_deploy_ocs only the loop's own conjuncts are     *)
(* left to show.                                                           *)
LEMMA LoopHeadIInv ==
    ASSUME TypeOK', acm' < ncl', phase' = "ocs", step' = "next",
           i' <= ncl', CreatedOnNonHub',
           "skip_ocs" \notin flags' =>
               \A c \in NonHub' : c < i' => HasStorage(c)'
    PROVE  IInv'
BY DEF IInv, PreOcs, Installed

(* The loop head of do_deploy_ocs: skip everything, skip the hub, switch   *)
(* to the next cluster, or end the loop with reset_ctx.                    *)
LEMMA OcsLoopIInv ==
    ASSUME IInv, OcsLoop
    PROVE  IInv'
<1>0. /\ phase = "ocs" /\ step = "next"
      /\ ncl \in 1..MaxClusters /\ i \in 0..ncl
      /\ \A c \in NonHub : c \in 0..(ncl - 1)
  BY DEF OcsLoop, OcsLoopUpTo, IInv, TypeOK, NonHub
<1>1. CASE /\ "skip_ocs" \in flags
           /\ phase' = "rdr"
           /\ UNCHANGED <<cfgVars, failedIn, ctx, i, step, created,
                          healthSeen, verified>>
  <2>1. TypeOK'
    BY <1>1 DEF IInv, TypeOK, Phases, cfgVars
  <2>2. CreatedOnNonHub'
    BY <1>1 DEF IInv, CreatedOnNonHub, NonHub, multicluster, cfgVars
  <2>3. QED
    BY <1>1, <2>1, <2>2 DEF IInv, PreOcs, cfgVars
<1>2. CASE /\ "skip_ocs" \notin flags
           /\ i < ncl /\ multicluster /\ acm = i
           /\ i' = i + 1
           /\ UNCHANGED <<cfgVars, phase, failedIn, ctx, step, created,
                          healthSeen, verified>>
  <2>1. i' \in 0..MaxClusters /\ i' <= ncl
    <3>1. i \in Nat /\ ncl \in Nat /\ MaxClusters \in Nat
      BY <1>0, MaxClustersAssumption
    <3>2. i < ncl /\ ncl <= MaxClusters /\ i' = i + 1
      BY <1>0, <1>2
    <3>3. QED
      BY <3>1, <3>2
  <2>2. TypeOK'
    BY <1>2, <2>1 DEF IInv, TypeOK, cfgVars
  <2>3. i \notin NonHub
    BY <1>2 DEF NonHub
  <2>4. \A c \in NonHub : c < i' => HasStorage(c)'
    <3> SUFFICES ASSUME NEW c \in NonHub, c < i' PROVE HasStorage(c)'
      OBVIOUS
    <3>1. c # i
      BY <2>3
    <3>2. c < i
      BY <1>0, <1>2, <3>1
    <3>3. HasStorage(c)
      BY <1>0, <1>2, <3>2 DEF IInv
    <3>4. QED
      BY <1>2, <3>3 DEF HasStorage, cfgVars
  <2>5. CreatedOnNonHub'
    BY <1>2 DEF IInv, CreatedOnNonHub, NonHub, multicluster, cfgVars
  <2>6. NonHub' = NonHub
    BY <1>2 DEF NonHub, multicluster, cfgVars
  <2>7. QED
    BY <1>0, <1>2, <2>1, <2>2, <2>4, <2>5, <2>6, LoopHeadIInv DEF IInv, cfgVars
<1>3. CASE /\ "skip_ocs" \notin flags
           /\ i < ncl /\ ~(multicluster /\ acm = i)
           /\ ctx' = i /\ step' = "check"
           /\ UNCHANGED <<cfgVars, phase, failedIn, i, created, healthSeen,
                          verified>>
  <2>1. i \in NonHub /\ i \in Clusters
    BY <1>0, <1>3, MaxClustersAssumption DEF NonHub, Clusters
  <2>2. TypeOK'
    BY <1>3, <2>1 DEF IInv, TypeOK, OcsSteps, cfgVars
  <2>3. NonHub' = NonHub
    BY <1>3 DEF NonHub, multicluster, cfgVars
  <2>4. CreatedOnNonHub'
    BY <1>3 DEF IInv, CreatedOnNonHub, NonHub, multicluster, cfgVars
  <2>5. \A c \in NonHub : c < i' => HasStorage(c)'
    BY <1>0, <1>3 DEF IInv, HasStorage, cfgVars
  <2>6. QED
    BY <1>0, <1>3, <2>1, <2>2, <2>3, <2>4, <2>5
       DEF IInv, PreOcs, Installed, cfgVars
<1>4. CASE /\ "skip_ocs" \notin flags
           /\ i >= ncl
           /\ ctx' = DefaultCtx /\ i' = 0
           /\ phase' = IF multicluster THEN "verify" ELSE "rdr"
           /\ UNCHANGED <<cfgVars, failedIn, step, created, healthSeen,
                          verified>>
  <2>1. phase' \in {"verify", "rdr"}
    BY <1>4
  <2>2. TypeOK'
    BY <1>4, <2>1, MaxClustersAssumption
       DEF IInv, TypeOK, Phases, DefaultCtx, Clusters, cfgVars
  <2>3. NonHub' = NonHub
    BY <1>4 DEF NonHub, multicluster, cfgVars
  <2>4. \A c \in NonHub : HasStorage(c)'
    <3> SUFFICES ASSUME NEW c \in NonHub PROVE HasStorage(c)'
      OBVIOUS
    <3>1. c < i
      BY <1>0, <1>4
    <3>2. HasStorage(c)
      BY <1>0, <1>4, <3>1 DEF IInv
    <3>3. QED
      BY <1>4, <3>2 DEF HasStorage, cfgVars
  <2>5. CreatedOnNonHub'
    BY <1>4 DEF IInv, CreatedOnNonHub, NonHub, multicluster, cfgVars
  <2>6. QED
    BY <1>4, <2>1, <2>2, <2>3, <2>4, <2>5 DEF IInv, PreOcs, cfgVars
<1>5. QED
  BY <1>1, <1>2, <1>3, <1>4 DEF OcsLoop, OcsLoopUpTo

(* Inside deploy_ocs: the facts about the cluster being deployed are kept  *)
(* as long as storage is never taken away.                                 *)
LEMMA InsideIInv ==
    ASSUME IInv, phase = "ocs", step # "next",
           step' \in OcsSteps \ {"next"},
           UNCHANGED <<cfgVars, phase, failedIn, ctx, i, verified>>,
           created' \in [Clusters -> BOOLEAN],
           healthSeen' \in [Clusters -> HealthResults],
           \A c \in Clusters : created[c] => created'[c],
           CreatedOnNonHub',
           step' \in Installed => HasStorage(ctx)'
    PROVE  IInv'
<1>1. TypeOK'
  BY DEF IInv, TypeOK, cfgVars
<1>2. NonHub' = NonHub
  BY DEF NonHub, multicluster, cfgVars
<1>3. ctx = i /\ i \in NonHub
  BY DEF IInv
<1>4. "skip_ocs" \notin flags' =>
          \A c \in NonHub' : c < i' => HasStorage(c)'
  <2> SUFFICES ASSUME "skip_ocs" \notin flags', NEW c \in NonHub', c < i'
               PROVE  HasStorage(c)'
    OBVIOUS
  <2>1. c \in Clusters
    BY <1>2, MaxClustersAssumption DEF IInv, TypeOK, NonHub, Clusters
  <2>2. HasStorage(c)
    BY <1>2 DEF IInv, cfgVars
  <2>3. QED
    BY <2>1, <2>2 DEF HasStorage, cfgVars
<1>5. QED
  BY <1>1, <1>2, <1>3, <1>4 DEF IInv, PreOcs, cfgVars, OcsSteps

(* deploy_ocs returns to the loop with storage on its cluster: the loop    *)
(* index moves past a cluster that has storage.                            *)
LEMMA ReturnIInv ==
    ASSUME IInv, phase = "ocs", step # "next", step' = "next", i' = i + 1,
           UNCHANGED <<cfgVars, phase, failedIn, ctx, healthSeen, verified>>,
           created' \in [Clusters -> BOOLEAN],
           \A c \in Clusters : created[c] => created'[c],
           CreatedOnNonHub',
           HasStorage(ctx)'
    PROVE  IInv'
<1>1. /\ ctx = i /\ i \in NonHub
      /\ i \in 0..(ncl - 1) /\ ncl \in 1..MaxClusters
  BY DEF IInv, TypeOK, NonHub
<1>2. i' \in 0..MaxClusters /\ i' <= ncl
  <2>1. i \in Nat /\ ncl \in Nat /\ MaxClusters \in Nat
    BY <1>1, MaxClustersAssumption
  <2>2. i < ncl /\ ncl <= MaxClusters
    BY <1>1, <2>1
  <2>3. QED
    BY <2>1, <2>2
<1>3. TypeOK'
  BY <1>2 DEF IInv, TypeOK, OcsSteps, cfgVars
<1>4. NonHub' = NonHub
  BY DEF NonHub, multicluster, cfgVars
<1>5. "skip_ocs" \notin flags' =>
          \A c \in NonHub' : c < i' => HasStorage(c)'
  <2> SUFFICES ASSUME "skip_ocs" \notin flags', NEW c \in NonHub', c < i'
               PROVE  HasStorage(c)'
    OBVIOUS
  <2>1. c \in Clusters /\ c \in Nat
    BY <1>4, MaxClustersAssumption DEF IInv, TypeOK, NonHub, Clusters
  <2>2. CASE c = i
    BY <1>1, <2>2
  <2>3. CASE c # i
    <3>1. c < i
      BY <1>1, <2>1, <2>3
    <3>2. HasStorage(c)
      BY <1>4, <3>1 DEF IInv, cfgVars
    <3>3. QED
      BY <2>1, <3>2 DEF HasStorage, cfgVars
  <2>4. QED
    BY <2>2, <2>3
<1>6. acm' < ncl' /\ phase' = "ocs" /\ i' <= ncl'
  BY <1>2 DEF IInv, cfgVars
<1>7. QED
  BY <1>2, <1>3, <1>5, <1>6, LoopHeadIInv

(* A step of deploy_ocs after the install (pod waits, post-install checks, *)
(* the second health check) goes on within the installed steps or raises.  *)
LEMMA OcsStepIInv ==
    ASSUME IInv, NEW s \in Installed, NEW nxt \in Installed, OcsStep(s, nxt)
    PROVE  IInv'
<1>1. CASE Raise
  BY <1>1, RaiseIInv
<1>2. CASE /\ step' = nxt
           /\ UNCHANGED <<cfgVars, phase, failedIn, ctx, i, created,
                          healthSeen, verified>>
  <2>1. phase = "ocs" /\ step = s /\ step # "next"
    BY DEF OcsStep, Installed
  <2>2. HasStorage(ctx)'
    BY <1>2, <2>1 DEF IInv, HasStorage, cfgVars
  <2>3. CreatedOnNonHub'
    BY <1>2 DEF IInv, CreatedOnNonHub, NonHub, multicluster, cfgVars
  <2>4. QED
    BY <1>2, <2>1, <2>2, <2>3, InsideIInv DEF IInv, TypeOK, Installed,
       OcsSteps
<1>3. QED
  BY <1>1, <1>2 DEF OcsStep

(* The CephCluster lookup: a listed one makes deploy_ocs return; an empty *)
(* or failed lookup goes on to the install step; the registry call before *)
(* it may raise.                                                           *)
LEMMA OcsCheckIInv ==
    ASSUME IInv, OcsCheck
    PROVE  IInv'
<1>0. phase = "ocs" /\ step = "check"
  BY DEF OcsCheck
<1>1. CASE cephExists[ctx] /\ OcsReturn
  <2>2. UNCHANGED <<cfgVars, ctx, created>>
    BY <1>1 DEF OcsReturn
  <2>3. CreatedOnNonHub'
    BY <2>2 DEF IInv, CreatedOnNonHub, NonHub, multicluster, cfgVars
  <2>4. HasStorage(ctx)'
    BY <1>1, <2>2 DEF HasStorage, cfgVars
  <2>5. QED
    BY <1>0, <1>1, <2>2, <2>3, <2>4, ReturnIInv DEF OcsReturn, IInv, TypeOK
<1>2. CASE /\ step' = "install"
           /\ UNCHANGED <<cfgVars, phase, failedIn, ctx, i, created,
                          healthSeen, verified>>
  <2>2. CreatedOnNonHub'
    BY <1>2 DEF IInv, CreatedOnNonHub, NonHub, multicluster, cfgVars
  <2>3. QED
    BY <1>0, <1>2, <2>2, InsideIInv DEF IInv, TypeOK, Installed, OcsSteps
<1>3. CASE Raise
  BY <1>3, RaiseIInv
<1>4. QED
  BY <1>1, <1>2, <1>3 DEF OcsCheck

(* The install creates storage on the active cluster, a non-hub cluster.  *)
LEMMA OcsInstallIInv ==
    ASSUME IInv, OcsInstall
    PROVE  IInv'
<1>0. /\ phase = "ocs" /\ step = "install"
      /\ ctx \in NonHub /\ ctx \in Clusters
  BY DEF OcsInstall, IInv, TypeOK
<1>1. CASE Raise
  BY <1>1, RaiseIInv
<1>2. CASE /\ created' = [created EXCEPT ![ctx] = TRUE]
           /\ IF "external_mode" \notin flags /\ "mcg_only" \in flags
              THEN step' = "next" /\ i' = i + 1
              ELSE /\ step' = IF "external_mode" \in flags THEN "post"
                              ELSE "pods"
                   /\ UNCHANGED i
           /\ UNCHANGED <<cfgVars, phase, failedIn, ctx, healthSeen, verified>>
  <2>1. /\ created' \in [Clusters -> BOOLEAN]
        /\ \A c \in Clusters : created[c] => created'[c]
        /\ HasStorage(ctx)'
    BY <1>0, <1>2 DEF IInv, TypeOK, HasStorage, cfgVars
  <2>2. CreatedOnNonHub'
    <3> SUFFICES ASSUME NEW c \in Clusters, created'[c]
                 PROVE  c \in NonHub'
      BY DEF CreatedOnNonHub
    <3>1. NonHub' = NonHub
      BY <1>2 DEF NonHub, multicluster, cfgVars
    <3>2. CASE c = ctx
      BY <1>0, <3>1, <3>2
    <3>3. CASE c # ctx
      <4>1. created[c]
        BY <1>0, <1>2, <3>3 DEF IInv, TypeOK
      <4>2. QED
        BY <3>1, <4>1 DEF IInv, CreatedOnNonHub
    <3>4. QED
      BY <3>2, <3>3
  <2>3. CASE "external_mode" \notin flags /\ "mcg_only" \in flags
    <3>1. step' = "next" /\ i' = i + 1
      BY <1>2, <2>3
    <3>2. QED
      BY <1>0, <1>2, <2>1, <2>2, <3>1, ReturnIInv
  <2>4. CASE ~("external_mode" \notin flags /\ "mcg_only" \in flags)
    <3>1. step' \in {"post", "pods"} /\ i' = i
      BY <1>2, <2>4
    <3>2. healthSeen' \in [Clusters -> HealthResults]
      BY <1>2 DEF IInv, TypeOK
    <3>3. QED
      BY <1>0, <1>2, <2>1, <2>2, <3>1, <3>2, InsideIInv DEF Installed,
         OcsSteps
  <2>5. QED
    BY <2>3, <2>4
<1>3. QED
  BY <1>1, <1>2 DEF OcsInstall

(* The health check records what it saw and goes on to the clock-skew     *)
(* retry or the storage-class patch, or raises.                            *)
LEMMA OcsHealthIInv ==
    ASSUME IInv, OcsHealth
    PROVE  IInv'
<1>0. phase = "ocs" /\ step = "health" /\ ctx \in Clusters
  BY DEF OcsHealth, IInv, TypeOK
<1>1. CASE Raise
  BY <1>1, RaiseIInv
<1>2. ASSUME NEW h \in {"ok", "skew", "other"},
             healthSeen' = [healthSeen EXCEPT ![ctx] = h],
             step' = IF h = "skew" THEN "skew_retry" ELSE "patch_sc",
             UNCHANGED <<cfgVars, phase, failedIn, ctx, i, created, verified>>
      PROVE  IInv'
  <2>1. healthSeen' \in [Clusters -> HealthResults]
    BY <1>0, <1>2 DEF IInv, TypeOK, HealthResults
  <2>2. step' \in {"skew_retry", "patch_sc"}
    BY <1>2
  <2>3. HasStorage(ctx)'
    BY <1>0, <1>2 DEF IInv, HasStorage, Installed, cfgVars
  <2>4. CreatedOnNonHub'
    BY <1>2 DEF IInv, CreatedOnNonHub, NonHub, multicluster, cfgVars
  <2>5. QED
    BY <1>0, <1>2, <2>1, <2>2, <2>3, <2>4, InsideIInv DEF IInv, TypeOK,
       Installed, OcsSteps
<1>3. QED
  BY <1>1, <1>2 DEF OcsHealth

(* The storage-class patch ends deploy_ocs: it returns to the loop with    *)
(* storage on its cluster, or raises.                                      *)
LEMMA OcsPatchScIInv ==
    ASSUME IInv, OcsPatchSc
    PROVE  IInv'
<1>0. phase = "ocs" /\ step = "patch_sc"
  BY DEF OcsPatchSc
<1>1. CASE Raise
  BY <1>1, RaiseIInv
<1>2. CASE OcsReturn
  <2>1. UNCHANGED <<cfgVars, ctx, created>>
    BY <1>2 DEF OcsReturn
  <2>2. HasStorage(ctx)'
    BY <1>0, <2>1 DEF IInv, HasStorage, Installed, cfgVars
  <2>3. CreatedOnNonHub'
    BY <2>1 DEF IInv, CreatedOnNonHub, NonHub, multicluster, cfgVars
  <2>4. QED
    BY <1>0, <1>2, <2>1, <2>2, <2>3, ReturnIInv DEF OcsReturn, IInv, TypeOK
<1>3. QED
  BY <1>1, <1>2 DEF OcsPatchSc

(* After the storage loop, in verification and DR, storage is never taken *)
(* away and the phase only moves on.                                       *)
LEMMA AfterLoopIInv ==
    ASSUME IInv, phase \in {"verify", "rdr"},
           phase' \in {"verify", "rdr", "done", "failed"},
           UNCHANGED <<cfgVars, created>>, TypeOK'
    PROVE  IInv'
<1>1. NonHub' = NonHub
  BY DEF NonHub, multicluster, cfgVars
<1>2. CreatedOnNonHub'
  BY DEF IInv, CreatedOnNonHub, NonHub, multicluster, cfgVars
<1>3. "skip_ocs" \notin flags' => \A c \in NonHub' : HasStorage(c)'
  BY <1>1 DEF IInv, HasStorage, cfgVars
<1>4. QED
  BY <1>2, <1>3 DEF IInv, PreOcs, cfgVars

(* The verification loop over range(config.multicluster).                  *)
LEMMA VerifyIInv ==
    ASSUME IInv, Verify
    PROVE  IInv'
<1>0. /\ phase = "verify"
      /\ BoolToInt(multicluster) \in {0, 1}
      /\ 0 \in Clusters /\ 1 \in 0..MaxClusters
  BY MaxClustersAssumption DEF Verify, BoolToInt, Clusters
<1>1. CASE /\ i < BoolToInt(multicluster) /\ acm = i
           /\ i' = i + 1
           /\ UNCHANGED <<cfgVars, phase, failedIn, ctx, step, created,
                          healthSeen, verified>>
  <2>1. i = 0 /\ i' = 1
    BY <1>0, <1>1 DEF IInv, TypeOK
  <2>2. TypeOK'
    BY <1>0, <1>1, <2>1 DEF IInv, TypeOK, cfgVars
  <2>3. QED
    BY <1>0, <1>1, <2>2, AfterLoopIInv DEF cfgVars
<1>2. CASE /\ i < BoolToInt(multicluster) /\ acm # i
           /\ ctx' = i
           /\ \/ /\ verified' = verified \cup {i}
                 /\ i' = i + 1
                 /\ UNCHANGED <<phase, failedIn>>
              \/ /\ phase' = "failed" /\ failedIn' = "verify"
                 /\ UNCHANGED <<i, verified>>
           /\ UNCHANGED <<cfgVars, step, created, healthSeen>>
  <2>1. i = 0 /\ ctx' \in Clusters
    BY <1>0, <1>2 DEF IInv, TypeOK
  <2>2. /\ i' \in 0..MaxClusters /\ verified' \subseteq Clusters
        /\ phase' \in {"verify", "failed"}
        /\ failedIn' \in Phases \cup {"none"}
    <3>1. CASE verified' = verified \cup {i} /\ i' = i + 1
               /\ UNCHANGED <<phase, failedIn>>
      BY <1>0, <1>2, <2>1, <3>1 DEF IInv, TypeOK, Phases
    <3>2. CASE phase' = "failed" /\ failedIn' = "verify"
               /\ UNCHANGED <<i, verified>>
      BY <1>0, <1>2, <2>1, <3>2 DEF IInv, TypeOK, Phases
    <3>3. QED
      BY <1>2, <3>1, <3>2
  <2>3. TypeOK'
    BY <1>2, <2>1, <2>2 DEF IInv, TypeOK, Phases, cfgVars
  <2>4. QED
    BY <1>0, <1>2, <2>2, <2>3, AfterLoopIInv DEF cfgVars
<1>3. CASE /\ i >= BoolToInt(multicluster)
           /\ ctx' = DefaultCtx /\ i' = 0 /\ phase' = "rdr"
           /\ UNCHANGED <<cfgVars, failedIn, step, created, healthSeen,
                          verified>>
  <2>1. TypeOK'
    BY <1>0, <1>3, MaxClustersAssumption
       DEF IInv, TypeOK, Phases, DefaultCtx, cfgVars
  <2>2. QED
    BY <1>0, <1>3, <2>1, AfterLoopIInv DEF cfgVars
<1>4. QED
  BY <1>1, <1>2, <1>3 DEF Verify

(* do_deploy_rdr ends the run, done on the hub or failed anywhere.         *)
LEMMA RdrIInv ==
    ASSUME IInv, Rdr
    PROVE  IInv'
<1>1. /\ phase = "rdr" /\ phase' \in {"done", "failed"}
      /\ failedIn' \in Phases \cup {"none"}
      /\ UNCHANGED <<cfgVars, i, step, created, healthSeen, verified>>
  BY DEF Rdr, IInv, TypeOK, Phases
<1>2. ctx' \in Clusters
  BY MaxClustersAssumption DEF Rdr, IInv, TypeOK, Clusters
<1>3. TypeOK'
  BY <1>1, <1>2 DEF IInv, TypeOK, Phases, cfgVars
<1>4. QED
  BY <1>1, <1>3, AfterLoopIInv

LEMMA NextIInv == IInv /\ [Next]_vars => IInv'
<1> SUFFICES ASSUME IInv, [Next]_vars PROVE IInv'
  OBVIOUS
<1>1. CASE DeployOcp
  BY <1>1, PhaseIInv DEF DeployOcp, PreOcs
<1>2. CASE NetworkSplit
  BY <1>2, PhaseIInv DEF NetworkSplit, PreOcs
<1>3. CASE AcmHub
  BY <1>3, PhaseIInv DEF AcmHub, PreOcs
<1>4. CASE Lvmo
  BY <1>4, PhaseIInv DEF Lvmo, PreOcs
<1>5. CASE SubmarinerPhase
  BY <1>5, PhaseIInv DEF SubmarinerPhase, PreOcs
<1>6. CASE OcsLoop
  BY <1>6, OcsLoopIInv
<1>7. CASE OcsCheck
  BY <1>7, OcsCheckIInv
<1>8. CASE OcsInstall
  BY <1>8, OcsInstallIInv
<1>9. CASE OcsPods \/ OcsPost \/ OcsSkewRetry
  BY <1>9, OcsStepIInv DEF OcsPods, OcsPost, OcsSkewRetry, Installed
<1>10. CASE OcsHealth
  BY <1>10, OcsHealthIInv
<1>11. CASE OcsPatchSc
  BY <1>11, OcsPatchScIInv
<1>12. CASE Verify
  BY <1>12, VerifyIInv
<1>13. CASE Rdr
  BY <1>13, RdrIInv
<1>14. CASE UNCHANGED vars
  BY <1>14 DEF vars, cfgVars, IInv, TypeOK, PreOcs, Installed, HasStorage,
     NonHub, multicluster, CreatedOnNonHub
<1>15. QED
  BY <1>1, <1>2, <1>3, <1>4, <1>5, <1>6, <1>7, <1>8, <1>9, <1>10, <1>11,
     <1>12, <1>13, <1>14 DEF Next, DeployOcs

(* Every reachable state of deploy_cluster is well typed, for every        *)
(* number of clusters a configuration may name.                            *)
THEOREM TypeCorrect == Spec => []TypeOK
<1>1. IInv => TypeOK
  BY DEF IInv
<1>2. QED
  BY <1>1, InitIInv, NextIInv, PTL DEF Spec

(* For every MaxClusters: a deploy_cluster run that ends done without      *)
(* skip_ocs_deployment left a storage cluster on every non-hub cluster.    *)
THEOREM DoneDeployed == Spec => []DoneMeansAllDeployed
<1>1. IInv => DoneMeansAllDeployed
  BY DEF IInv, DoneMeansAllDeployed, HasStorage
<1>2. QED
  BY <1>1, InitIInv, NextIInv, PTL DEF Spec

=============================================================================
