------------------------ MODULE OperatorInstallProofs ------------------------
(***************************************************************************)
(* Proofs about the operator installer of OperatorInstall, for every value *)
(* of the constants: type correctness, and that the installer reports done *)
(* only when the CSV of every operator it waited for has Succeeded, and   *)
(* that it never polls for a CSV while the install plan awaits approval.   *)
(***************************************************************************)
EXTENDS OperatorInstall, TLAPS

(* The list of operators the loop of deploy_ocs_via_operator waits for is  *)
(* a non-empty sequence of at most four operators.                         *)
LEMMA OperatorNamesType ==
    ASSUME NEW v \in OcsVersions, NEW ocp \in OcpVersions, NEW lv \in BOOLEAN
    PROVE  /\ OperatorNames(v, ocp, lv) \in Seq(Operators)
           /\ Len(OperatorNames(v, ocp, lv)) \in 1..4
<1>1. CASE v = 8
  BY <1>1 DEF OperatorNames, Operators
<1>2. CASE v = 9 /\ lv /\ ocp = 10
  BY <1>2 DEF OperatorNames, Operators
<1>3. CASE v = 9 /\ ~(lv /\ ocp = 10)
  <2>1. OperatorNames(v, ocp, lv) = <<ODF, OCS, MCG>>
    BY <1>3 DEF OperatorNames
  <2>2. QED
    BY <2>1 DEF Operators
<1>4. CASE v = 10
  BY <1>4 DEF OperatorNames, Operators
<1>5. QED
  BY <1>1, <1>2, <1>3, <1>4 DEF OcsVersions

(* The inductive strengthening: every operator before the loop index has  *)
(* Succeeded, and a Succeeded CSV stays Succeeded.                         *)
IInv ==
    /\ TypeOK
    /\ opIdx <= Len(Names)
    /\ pc \notin {"wait_succeeded", "done", "failed"} => opIdx = 1
    /\ pc = "wait_succeeded" => \A i \in 1..(opIdx - 1) : csv[Names[i]] = "Succeeded"
    /\ pc = "done" => \A i \in 1..Len(Names) : csv[Names[i]] = "Succeeded"

(* Names, the list of the loop, is fixed by the configuration.             *)
LEMMA NamesType ==
    ASSUME TypeOK
    PROVE  /\ Names \in Seq(Operators)
           /\ Len(Names) \in 1..4
BY OperatorNamesType DEF TypeOK, Names

(* A step of OLM never takes a CSV out of Succeeded.                       *)
LEMMA OLMKeepsSucceeded ==
    ASSUME TypeOK, OLM, NEW o \in Operators, csv[o] = "Succeeded"
    PROVE  csv'[o] = "Succeeded"
<1>1. CASE OLMCatalogReady \/ OLMResolve
  BY <1>1 DEF OLMCatalogReady, OLMResolve
<1>2. ASSUME NEW p \in Operators, OLMCreateCsv(p)
      PROVE  csv'[o] = "Succeeded"
  BY <1>2 DEF OLMCreateCsv, TypeOK
<1>3. ASSUME NEW p \in Operators, OLMAdvanceCsv(p)
      PROVE  csv'[o] = "Succeeded"
  BY <1>3 DEF OLMAdvanceCsv, TypeOK
<1>4. QED
  BY <1>1, <1>2, <1>3 DEF OLM

(* One sample of a wait moves the installer to the same step, to the next *)
(* one or to failed, and leaves the loop index and the approvals alone.    *)
LEMMA WaitEffect ==
    ASSUME NEW STATE c, NEW s \in Steps, NEW nxt \in Steps,
           polls \in 0..MaxPolls, failedAt \in Steps \cup {"none"},
           Wait(s, c, nxt)
    PROVE  /\ pc = s
           /\ pc' \in {s, nxt, "failed"}
           /\ polls' \in 0..MaxPolls
           /\ failedAt' \in Steps \cup {"none"}
           /\ opIdx' = opIdx /\ approvals' = approvals
<1>1. CASE PollHit(s, c, nxt) /\ UNCHANGED <<opIdx, approvals>>
  BY <1>1, MaxPollsAssumption DEF PollHit, Steps
<1>2. CASE PollMiss(s, c)
  BY <1>2, MaxPollsAssumption DEF PollMiss, Steps
<1>3. CASE PollTimeout(s, c)
  BY <1>3, MaxPollsAssumption DEF PollTimeout, Steps
<1>4. QED
  BY <1>1, <1>2, <1>3 DEF Wait

LEMMA InitIInv == Init => IInv
<1> SUFFICES ASSUME Init PROVE IInv
  OBVIOUS
<1>1. /\ ocsVersion \in OcsVersions /\ ocpVersion \in OcpVersions
      /\ live \in BOOLEAN /\ approval \in Approvals
  BY DEF Init
<1>2. polls \in 0..MaxPolls
  BY MaxPollsAssumption DEF Init
<1>3. csv \in [Operators -> CsvPhases]
  BY DEF Init, CsvPhases
<1>4. pc \in Steps /\ failedAt \in Steps \cup {"none"}
  BY DEF Init, Steps
<1>5. opIdx \in 1..4 /\ approvals \in Nat
  BY DEF Init
<1>6. /\ pmReady \in BOOLEAN /\ sub \in BOOLEAN
      /\ plan \in {"none", "pending", "approved"} /\ sawInstalling \in BOOLEAN
  BY Zenon DEF Init
<1>7. TypeOK
  BY <1>1, <1>2, <1>3, <1>4, <1>5, <1>6 DEF TypeOK
<1>8. opIdx <= Len(Names)
  <2>1. Len(Names) \in 1..4
    BY <1>7, NamesType
  <2>2. QED
    BY <2>1 DEF Init
<1>9. QED
  BY <1>7, <1>8 DEF Init, IInv

(* The configuration variables never change.                               *)
LEMMA NextKeepsConfig ==
    ASSUME [Next]_vars
    PROVE  UNCHANGED cfgVars
BY DEF Next, vars, Installer, OLM, WaitPackageManifest, CreateSubscription,
       ApproveInstallPlan, WaitInstalling, WaitCsv, WaitSucceeded,
       OLMCatalogReady, OLMResolve, OLMCreateCsv, OLMAdvanceCsv

(* Advancing an index that is below the end of a list of at most four     *)
(* keeps it within the list.                                               *)
LEMMA NextIndexBound ==
    ASSUME NEW k \in 1..4, NEW L \in 1..4, k <= L, k # L
    PROVE  k + 1 <= L /\ L <= 4
OBVIOUS

(* A step taken before the CSV-Succeeded loop keeps the loop index at 1,  *)
(* and then the strengthening holds after it as soon as the types do.      *)
LEMMA EarlyStepIInv ==
    ASSUME IInv, UNCHANGED cfgVars, TypeOK', opIdx' = 1, pc' # "done"
    PROVE  IInv'
<1>1. Names' = Names
  BY DEF cfgVars, Names
<1>2. Len(Names) \in 1..4
  BY NamesType DEF IInv
<1>3. QED
  BY <1>1, <1>2 DEF IInv

LEMMA NextIInv == IInv /\ [Next]_vars => IInv'
<1> SUFFICES ASSUME IInv, [Next]_vars PROVE IInv'
  OBVIOUS
<1>0. /\ Names \in Seq(Operators)
      /\ Len(Names) \in 1..4
      /\ Names' = Names
      /\ UNCHANGED cfgVars
  BY NamesType, NextKeepsConfig DEF IInv, Names, cfgVars
<1>1. CASE WaitPackageManifest \/ WaitInstalling \/ WaitCsv
  <2>1. UNCHANGED olmVars
    BY <1>1 DEF WaitPackageManifest, WaitInstalling, WaitCsv
  <2>2. /\ pc \in {"wait_pm", "wait_installing", "wait_csv"}
        /\ pc' \in {"wait_pm", "create_sub", "wait_installing", "wait_csv",
                    "wait_succeeded", "failed"}
        /\ polls' \in 0..MaxPolls
        /\ failedAt' \in Steps \cup {"none"}
        /\ opIdx' = opIdx /\ approvals' = approvals
    <3>1. CASE WaitPackageManifest
      <4>1. Wait("wait_pm", pmReady, "create_sub")
        BY <3>1 DEF WaitPackageManifest
      <4>2. QED
        BY <4>1, WaitEffect DEF IInv, TypeOK, Steps
    <3>2. CASE WaitInstalling
      <4>1. Wait("wait_installing", InstallingCond, "wait_csv")
        BY <3>2 DEF WaitInstalling
      <4>2. QED
        BY <4>1, WaitEffect DEF IInv, TypeOK, Steps
    <3>3. CASE WaitCsv
      <4>1. Wait("wait_csv", CsvListedCond, "wait_succeeded")
        BY <3>3 DEF WaitCsv
      <4>2. QED
        BY <4>1, WaitEffect DEF IInv, TypeOK, Steps
    <3>4. QED
      BY <1>1, <3>1, <3>2, <3>3
  <2>3. TypeOK'
    BY <1>0, <2>1, <2>2 DEF IInv, TypeOK, Steps, cfgVars, olmVars
  <2>4. opIdx' = 1
    BY <2>2 DEF IInv
  <2>5. QED
    BY <1>0, <2>2, <2>3, <2>4, EarlyStepIInv
<1>2. CASE CreateSubscription
  <2>1. /\ pc = "create_sub"
        /\ pc' \in {"approve_plan", "wait_csv", "failed"}
        /\ failedAt' \in Steps \cup {"none"}
        /\ UNCHANGED <<polls, opIdx, approvals, pmReady, plan, csv, sawInstalling>>
        /\ sub' \in BOOLEAN
    BY <1>2 DEF CreateSubscription, IInv, TypeOK, Steps
  <2>2. TypeOK'
    BY <1>0, <2>1 DEF IInv, TypeOK, Steps, cfgVars
  <2>3. opIdx' = 1
    BY <2>1 DEF IInv
  <2>4. QED
    BY <1>0, <2>1, <2>2, <2>3, EarlyStepIInv
<1>3. CASE ApproveInstallPlan
  <2>1. /\ pc = "approve_plan"
        /\ pc' \in {"wait_installing", "approve_plan", "failed"}
        /\ polls' \in 0..MaxPolls
        /\ failedAt' \in Steps \cup {"none"}
        /\ opIdx' = opIdx
        /\ approvals' \in Nat
        /\ plan' \in {"none", "pending", "approved"}
        /\ UNCHANGED <<pmReady, sub, csv, sawInstalling>>
    BY <1>3, MaxPollsAssumption
       DEF ApproveInstallPlan, PollHit, PollMiss, PollTimeout, IInv, TypeOK,
           Steps
  <2>2. TypeOK'
    BY <1>0, <2>1 DEF IInv, TypeOK, Steps, cfgVars
  <2>3. opIdx' = 1
    BY <2>1 DEF IInv
  <2>4. QED
    BY <1>0, <2>1, <2>2, <2>3, EarlyStepIInv
<1>4. CASE WaitSucceeded
  <2>1. UNCHANGED olmVars
    BY <1>4 DEF WaitSucceeded
  <2>2. pc = "wait_succeeded"
    BY <1>4 DEF WaitSucceeded, PollHit, PollMiss, PollTimeout
  <2>3. CASE /\ PollHit("wait_succeeded", SucceededCond,
                     IF opIdx = Len(Names) THEN "done" ELSE "wait_succeeded")
             /\ opIdx' = IF opIdx = Len(Names) THEN opIdx ELSE opIdx + 1
             /\ UNCHANGED approvals
    <3>1. csv[Names[opIdx]] = "Succeeded"
      BY <2>3 DEF PollHit, SucceededCond
    <3>2. \A i \in 1..(opIdx - 1) : csv[Names[i]] = "Succeeded"
      BY <2>2 DEF IInv
    <3>3. \A i \in 1..opIdx : csv'[Names'[i]] = "Succeeded"
      BY <1>0, <2>1, <3>1, <3>2 DEF olmVars, IInv, TypeOK
    <3>4. /\ pc' \in {"done", "wait_succeeded"}
          /\ polls' = 0
          /\ UNCHANGED failedAt
      BY <2>3 DEF PollHit
    <3>5. opIdx' \in 1..4 /\ opIdx' <= Len(Names)
      <4>1. opIdx \in 1..4 /\ opIdx <= Len(Names)
        BY DEF IInv, TypeOK
      <4>2. opIdx' = IF opIdx = Len(Names) THEN opIdx ELSE opIdx + 1
        BY <2>3
      <4>3. CASE opIdx = Len(Names)
        BY <4>1, <4>2, <4>3
      <4>4. CASE opIdx # Len(Names)
        <5>1. opIdx' = opIdx + 1
          BY <4>2, <4>4
        <5>2. opIdx + 1 <= Len(Names) /\ Len(Names) <= 4
          <6>1. Len(Names) \in 1..4
            BY <1>0
          <6>2. QED
            BY <6>1, <4>1, <4>4, NextIndexBound
        <5>3. QED
          BY <4>1, <5>1, <5>2
      <4>5. QED
        BY <4>3, <4>4
    <3>6. TypeOK'
      BY <1>0, <2>1, <2>3, <3>4, <3>5, MaxPollsAssumption
         DEF IInv, TypeOK, Steps, olmVars, cfgVars
    <3>7. pc' = "done" => opIdx' = Len(Names) /\ opIdx = Len(Names)
      BY <2>3 DEF PollHit
    <3>8. pc' = "wait_succeeded" => opIdx' = opIdx + 1
      BY <2>3 DEF PollHit
    <3>9. (pc' = "wait_succeeded") =>
            \A i \in 1..(opIdx' - 1) : csv'[Names'[i]] = "Succeeded"
      BY <3>3, <3>5, <3>8 DEF IInv, TypeOK
    <3>10. (pc' = "done") =>
             \A i \in 1..Len(Names') : csv'[Names'[i]] = "Succeeded"
      BY <1>0, <3>3, <3>7
    <3>11. QED
      BY <1>0, <3>4, <3>5, <3>6, <3>9, <3>10 DEF IInv
  <2>4. CASE PollMiss("wait_succeeded", SucceededCond)
    <3>1. UNCHANGED <<pc, opIdx, failedAt, approvals>> /\ polls' \in 0..MaxPolls
      BY <2>4, MaxPollsAssumption DEF PollMiss, IInv, TypeOK
    <3>2. TypeOK'
      BY <1>0, <2>1, <3>1 DEF IInv, TypeOK, olmVars, cfgVars
    <3>3. QED
      BY <1>0, <2>1, <3>1, <3>2 DEF IInv, olmVars
  <2>8. CASE PollTimeout("wait_succeeded", SucceededCond)
    <3>1. /\ pc' = "failed" /\ failedAt' \in Steps
          /\ UNCHANGED <<polls, opIdx, approvals>>
      BY <2>8 DEF PollTimeout, Steps
    <3>2. TypeOK'
      BY <1>0, <2>1, <3>1 DEF IInv, TypeOK, olmVars, cfgVars, Steps
    <3>3. QED
      BY <1>0, <3>1, <3>2 DEF IInv
  <2>13. QED
    BY <1>4, <2>3, <2>4, <2>8 DEF WaitSucceeded
<1>5. CASE OLM
  <2>1. UNCHANGED instVars
    BY <1>5 DEF OLM, OLMCatalogReady, OLMResolve, OLMCreateCsv, OLMAdvanceCsv
  <2>2. csv' \in [Operators -> CsvPhases]
    BY <1>5 DEF OLM, OLMCatalogReady, OLMResolve, OLMCreateCsv,
                OLMAdvanceCsv, IInv, TypeOK, CsvPhases
  <2>3. /\ pmReady' \in BOOLEAN /\ sub' \in BOOLEAN
        /\ plan' \in {"none", "pending", "approved"}
        /\ sawInstalling' \in BOOLEAN
    BY <1>5 DEF OLM, OLMCatalogReady, OLMResolve, OLMCreateCsv,
                OLMAdvanceCsv, IInv, TypeOK
  <2>4. TypeOK'
    BY <1>0, <2>1, <2>2, <2>3 DEF IInv, TypeOK, cfgVars, instVars
  <2>5. \A i \in 1..Len(Names) : csv[Names[i]] = "Succeeded"
                                  => csv'[Names[i]] = "Succeeded"
    BY <1>0, <1>5, OLMKeepsSucceeded DEF IInv
  <2>6. UNCHANGED <<pc, opIdx>>
    BY <2>1 DEF instVars
  <2>7. (pc' = "wait_succeeded") =>
          \A i \in 1..(opIdx' - 1) : csv'[Names'[i]] = "Succeeded"
    BY <1>0, <2>5, <2>6 DEF IInv, TypeOK
  <2>8. (pc' = "done") =>
          \A i \in 1..Len(Names') : csv'[Names'[i]] = "Succeeded"
    BY <1>0, <2>5, <2>6 DEF IInv
  <2>9. QED
    BY <1>0, <2>4, <2>6, <2>7, <2>8 DEF IInv
<1>6. CASE UNCHANGED vars
  BY <1>6 DEF vars, cfgVars, instVars, olmVars, IInv, TypeOK, Names
<1>7. QED
  BY <1>1, <1>2, <1>3, <1>4, <1>5, <1>6 DEF Next, Installer

(* The installer's state stays well typed in every reachable state.        *)
THEOREM TypeCorrect == Spec => []TypeOK
<1>1. IInv => TypeOK
  BY DEF IInv
<1>2. QED
  BY <1>1, InitIInv, NextIInv, PTL DEF Spec

(* deploy_ocs_via_operator reports done only when the CSV of every operator *)
(* of ocs_operator_names has Succeeded, for every configuration.            *)
THEOREM InstalledSafe == Spec => []InstalledMeansSucceeded
<1>1. IInv => InstalledMeansSucceeded
  BY DEF IInv, InstalledMeansSucceeded
<1>2. QED
  BY <1>1, InitIInv, NextIInv, PTL DEF Spec

-----------------------------------------------------------------------------
(***************************************************************************)
(* The install plan.  NoCsvWaitOnPendingPlan is not inductive: it says     *)
(* nothing of a plan OLM resolves while the installer is in a CSV wait.   *)
(* The strengthening names why that cannot leave the plan pending: only    *)
(* a Manual subscription yields a pending plan, and in Manual mode the    *)
(* installer reaches the CSV waits only through the approval it makes,     *)
(* after which the plan stays approved and OLM resolves nothing more.      *)
(***************************************************************************)

\* The steps after wait_for_install_plan_and_approve in Manual mode.
PlanSettled == {"wait_installing", "wait_csv", "wait_succeeded", "done"}

PlanInv ==
    /\ plan = "pending" => approval = "Manual"
    /\ pc \in PlanSettled /\ approval = "Manual" => plan = "approved"

LEMMA InitPlanInv == Init => PlanInv
BY DEF Init, PlanInv, PlanSettled

\* A step of the installer that leaves the plan and the approval mode
\* alone and enters no settled step from an unsettled one keeps PlanInv.
LEMMA PlanKeptBy ==
    ASSUME PlanInv, UNCHANGED <<plan, approval>>,
           pc' \in PlanSettled => pc \in PlanSettled
    PROVE  PlanInv'
BY DEF PlanInv

LEMMA NextPlanInv == IInv /\ PlanInv /\ [Next]_vars => PlanInv'
<1> SUFFICES ASSUME IInv, PlanInv, [Next]_vars PROVE PlanInv'
  OBVIOUS
<1>1. CASE WaitPackageManifest
  <2>1. pc' \in {"wait_pm", "create_sub", "failed"}
    BY <1>1, WaitEffect DEF WaitPackageManifest, IInv, TypeOK, Steps
  <2>. QED
    BY <1>1, <2>1, PlanKeptBy DEF WaitPackageManifest, olmVars, cfgVars,
       PlanSettled
<1>2. CASE WaitInstalling \/ WaitCsv
  <2>1. pc \in PlanSettled
    BY <1>2 DEF WaitInstalling, WaitCsv, Wait, PollHit, PollMiss,
       PollTimeout, PlanSettled
  <2>. QED
    BY <1>2, <2>1, PlanKeptBy DEF WaitInstalling, WaitCsv, olmVars, cfgVars
<1>3. CASE WaitSucceeded
  <2>1. pc \in PlanSettled
    BY <1>3 DEF WaitSucceeded, PollHit, PollMiss, PollTimeout, PlanSettled
  <2>. QED
    BY <1>3, <2>1, PlanKeptBy DEF WaitSucceeded, olmVars, cfgVars
\* Automatic mode goes straight to wait_csv; Manual mode to the approval.
<1>4. CASE CreateSubscription
  <2>1. /\ pc' \in PlanSettled => approval # "Manual"
        /\ UNCHANGED <<plan, approval>>
    BY <1>4 DEF CreateSubscription, PlanSettled, cfgVars
  <2>. QED
    BY <2>1 DEF PlanInv
\* The approval is the one way out of approve_plan into a settled step.
<1>5. CASE ApproveInstallPlan
  <2>1. CASE PollHit("approve_plan", plan = "pending", "wait_installing")
             /\ plan' = "approved"
    BY <1>5, <2>1 DEF ApproveInstallPlan, PlanInv, cfgVars
  <2>2. CASE (PollMiss("approve_plan", plan = "pending")
              \/ PollTimeout("approve_plan", plan = "pending"))
             /\ UNCHANGED plan
    <3>1. pc' \in {"approve_plan", "failed"}
      BY <2>2 DEF PollMiss, PollTimeout
    <3>. QED
      BY <1>5, <2>2, <3>1, PlanKeptBy DEF ApproveInstallPlan, cfgVars,
         PlanSettled
  <2>. QED
    BY <1>5, <2>1, <2>2 DEF ApproveInstallPlan
\* OLM resolves a plan only while there is none, pending only in Manual.
<1>6. CASE OLMResolve
  <2>1. approval = "Manual" /\ pc \in PlanSettled => plan = "approved"
    BY DEF PlanInv
  <2>. QED
    BY <1>6, <2>1 DEF OLMResolve, PlanInv, instVars, cfgVars
<1>7. CASE OLMCatalogReady \/ \E o \in Operators : OLMCreateCsv(o) \/ OLMAdvanceCsv(o)
  BY <1>7, PlanKeptBy DEF OLMCatalogReady, OLMCreateCsv, OLMAdvanceCsv,
     instVars, cfgVars
<1>8. CASE UNCHANGED vars
  BY <1>8, PlanKeptBy DEF vars, cfgVars, instVars, olmVars
<1>. QED
  BY <1>1, <1>2, <1>3, <1>4, <1>5, <1>6, <1>7, <1>8 DEF Next, Installer, OLM

\* The installer never sits in wait_for_install_plan's successors, polling
\* for a CSV, while the install plan of a Manual subscription still waits
\* for approval: subscribe_ocs approves the plan before any CSV wait.
THEOREM NoPendingWaitSafe == Spec => []NoCsvWaitOnPendingPlan
<1>1. Init => IInv /\ PlanInv
  BY InitIInv, InitPlanInv
<1>2. IInv /\ PlanInv /\ [Next]_vars => (IInv /\ PlanInv)'
  BY NextIInv, NextPlanInv
<1>3. PlanInv => NoCsvWaitOnPendingPlan
  BY DEF PlanInv, PlanSettled, NoCsvWaitOnPendingPlan
<1>. QED
  BY <1>1, <1>2, <1>3, PTL DEF Spec

=============================================================================
