--------------------------- MODULE OperatorInstall ---------------------------
(***************************************************************************)
(* The OLM operator installer of the deployment orchestrator:              *)
(* Deployment.subscribe_ocs (wait for the package manifest, create the     *)
(* subscription, wait for it, approve the install plan in Manual mode and  *)
(* wait for the CSV to be Installing, wait for the CSV to appear) followed *)
(* by the loop of Deployment.deploy_ocs_via_operator that waits for the    *)
(* CSV of every operator of the bundle to reach Succeeded.                 *)
(*                                                                         *)
(* The installer runs against OLM, an eventually consistent control plane  *)
(* that acts between any two polls of the installer: the catalog becomes   *)
(* ready, the subscription is resolved into an install plan (approved by  *)
(* OLM itself unless the approval mode is Manual), and once the plan is    *)
(* approved the CSVs are created and move Pending -> Installing ->         *)
(* Succeeded, or Failed.  Every wait of the installer is a bounded poll:   *)
(* MaxPolls misses, then a timeout that fails the deployment.              *)
(***************************************************************************)
EXTENDS Naturals, Sequences

CONSTANTS
    ODF, OCS, MCG, CSIADDONS,   \* the operators of the storage bundle
    MaxPolls                    \* misses a poll tolerates before its timeout

ASSUME MaxPollsAssumption == MaxPolls \in Nat

Operators == {ODF, OCS, MCG, CSIADDONS}

(* Minor versions 4.x of OCS and OCP the configuration can name.           *)
OcsVersions == {8, 9, 10}
OcpVersions == {10, 11}

Approvals == {"Manual", "Automatic"}

CsvPhases == {"absent", "Pending", "Installing", "Succeeded", "Failed"}

(* The steps of the installer, in the order the code takes them.           *)
Steps == {"wait_pm", "create_sub", "approve_plan", "wait_installing",
          "wait_csv", "wait_succeeded", "done", "failed"}

VARIABLES
    ocsVersion, ocpVersion,   \* the configured versions (read-only)
    live,                     \* config.DEPLOYMENT["live_deployment"]
    approval,                 \* subscription_plan_approval
    pc,                       \* the installer's current step
    polls,                    \* misses of the current poll so far
    opIdx,                    \* position in the CSV-Succeeded loop
    failedAt,                 \* the step that failed, or "none"
    approvals,                \* install plans the installer approved
    pmReady,                  \* the package manifest is served
    sub,                      \* the subscription exists
    plan,                     \* the install plan: none, pending, approved
    csv,                      \* phase of the CSV of every operator
    sawInstalling             \* history: the subscribed CSV was Installing

cfgVars == <<ocsVersion, ocpVersion, live, approval>>
instVars == <<pc, polls, opIdx, failedAt, approvals>>
olmVars == <<pmReady, sub, plan, csv, sawInstalling>>
vars == <<cfgVars, instVars, olmVars>>

-----------------------------------------------------------------------------
(* The operator the subscription names: odf-operator from 4.9 on.          *)
SubscribedOperator(v) == IF v >= 9 THEN ODF ELSE OCS

(* ocs_operator_names of deploy_ocs_via_operator, with the 4.9-on-4.10     *)
(* live workaround that drops the MCG operator and the CSI addons          *)
(* operator added from 4.10 on.                                            *)
OperatorNames(v, ocp, lv) ==
    LET base == IF v >= 9
                THEN IF lv /\ ocp = 10 /\ v = 9
                     THEN <<ODF, OCS>>
                     ELSE <<ODF, OCS, MCG>>
                ELSE <<OCS>>
    IN  IF v >= 10 THEN Append(base, CSIADDONS) ELSE base

(* The CSVs OLM installs for the subscription (the dependency closure).    *)
Bundle(v) == IF v >= 10 THEN {ODF, OCS, MCG, CSIADDONS}
             ELSE IF v = 9 THEN {ODF, OCS, MCG}
             ELSE {OCS}

Names == OperatorNames(ocsVersion, ocpVersion, live)

Init ==
    /\ ocsVersion \in OcsVersions
    /\ ocpVersion \in OcpVersions
    /\ live \in BOOLEAN
    /\ approval \in Approvals
    /\ pc = "wait_pm"
    /\ polls = 0
    /\ opIdx = 1
    /\ failedAt = "none"
    /\ approvals = 0
    /\ pmReady \in BOOLEAN
    /\ sub = FALSE
    /\ plan = "none"
    /\ csv = [o \in Operators |-> "absent"]
    /\ sawInstalling = FALSE

-----------------------------------------------------------------------------
(* One sample of a TimeoutSampler-style wait in step s: a miss sleeps and  *)
(* samples again, the miss after MaxPolls raises the timeout.              *)
PollMiss(s, cond) ==
    /\ pc = s
    /\ ~cond
    /\ polls < MaxPolls
    /\ polls' = polls + 1
    /\ UNCHANGED <<pc, opIdx, failedAt, approvals>>

(* Fault model: the timeout raised only after one more miss than allowed. *)
PollTimeoutLate(s, cond) ==
    /\ pc = s
    /\ ~cond
    /\ polls > MaxPolls
    /\ pc' = "failed"
    /\ failedAt' = s
    /\ UNCHANGED <<polls, opIdx, approvals>>

PollTimeout(s, cond) ==
    /\ pc = s
    /\ ~cond
    /\ polls = MaxPolls
    /\ pc' = "failed"
    /\ failedAt' = s
    /\ UNCHANGED <<polls, opIdx, approvals>>

PollHit(s, cond, next) ==
    /\ pc = s
    /\ cond
    /\ pc' = next
    /\ polls' = 0
    /\ UNCHANGED failedAt

(* A wait of step s that goes on to step next once cond holds.             *)
Wait(s, cond, next) ==
    \/ PollHit(s, cond, next) /\ UNCHANGED <<opIdx, approvals>>
    \/ PollMiss(s, cond)
    \/ PollTimeout(s, cond)

(* package_manifest.wait_for_resource(timeout=300)                         *)
WaitPackageManifest ==
    /\ Wait("wait_pm", pmReady, "create_sub")
    /\ UNCHANGED <<cfgVars, olmVars>>

(* Fault model: the approval step left out, Manual mode or not.           *)
CreateSubscriptionSkippingApproval ==
    /\ pc = "create_sub"
    /\ sub' = TRUE
    /\ pc' = "wait_csv"
    /\ UNCHANGED <<cfgVars, polls, opIdx, approvals, failedAt,
                   pmReady, plan, csv, sawInstalling>>

(* oc create -f subscription, then wait_for_subscription, which finds the  *)
(* object the create stored; in Manual mode the install plan is approved   *)
(* next, otherwise wait_for_csv.  The create may fail (CommandFailed).     *)
CreateSubscription ==
    /\ pc = "create_sub"
    /\ \/ /\ sub' = TRUE
          /\ pc' = IF approval = "Manual" THEN "approve_plan" ELSE "wait_csv"
          /\ UNCHANGED failedAt
       \/ /\ pc' = "failed"
          /\ failedAt' = "create_sub"
          /\ UNCHANGED sub
    /\ UNCHANGED <<cfgVars, polls, opIdx, approvals,
                   pmReady, plan, csv, sawInstalling>>

(* wait_for_install_plan_and_approve: wait for the install plan that needs *)
(* approval and approve it.                                                *)
ApproveInstallPlan ==
    /\ \/ /\ PollHit("approve_plan", plan = "pending", "wait_installing")
          /\ plan' = "approved"
          /\ approvals' = approvals + 1
          /\ UNCHANGED opIdx
       \/ /\ PollMiss("approve_plan", plan = "pending")
          /\ UNCHANGED plan
       \/ /\ PollTimeout("approve_plan", plan = "pending")
          /\ UNCHANGED plan
    /\ UNCHANGED <<cfgVars, pmReady, sub, csv, sawInstalling>>

(* csv.wait_for_phase("Installing", timeout=60) on the current CSV.        *)
InstallingCond == csv[SubscribedOperator(ocsVersion)] = "Installing"

WaitInstalling ==
    /\ Wait("wait_installing", InstallingCond, "wait_csv")
    /\ UNCHANGED <<cfgVars, olmVars>>

(* wait_for_csv: a CSV whose name matches the operator is listed.          *)
CsvListedCond == csv[SubscribedOperator(ocsVersion)] # "absent"

WaitCsv ==
    /\ Wait("wait_csv", CsvListedCond, "wait_succeeded")
    /\ UNCHANGED <<cfgVars, olmVars>>

(* Fault model: waiting for the CSV to be listed instead of Succeeded.     *)
SucceededCondListedOnly == pmReady /\ csv[Names[opIdx]] # "absent"

(* One iteration of the loop over ocs_operator_names: wait for the package *)
(* manifest and for csv.wait_for_phase("Succeeded", timeout=720).          *)
SucceededCond == pmReady /\ csv[Names[opIdx]] = "Succeeded"

(* Fault model: the loop index moved on after the last operator too.      *)
WaitSucceededPastEnd ==
    /\ \/ /\ PollHit("wait_succeeded", SucceededCond,
                     IF opIdx = Len(Names) THEN "done" ELSE "wait_succeeded")
          /\ opIdx' = opIdx + 1
          /\ UNCHANGED approvals
       \/ PollMiss("wait_succeeded", SucceededCond)
       \/ PollTimeout("wait_succeeded", SucceededCond)
    /\ UNCHANGED <<cfgVars, olmVars>>

WaitSucceeded ==
    /\ \/ /\ PollHit("wait_succeeded", SucceededCond,
                     IF opIdx = Len(Names) THEN "done" ELSE "wait_succeeded")
          /\ opIdx' = IF opIdx = Len(Names) THEN opIdx ELSE opIdx + 1
          /\ UNCHANGED approvals
       \/ PollMiss("wait_succeeded", SucceededCond)
       \/ PollTimeout("wait_succeeded", SucceededCond)
    /\ UNCHANGED <<cfgVars, olmVars>>

Installer ==
    \/ WaitPackageManifest
    \/ CreateSubscription
    \/ ApproveInstallPlan
    \/ WaitInstalling
    \/ WaitCsv
    \/ WaitSucceeded

-----------------------------------------------------------------------------
(* OLM, the environment.                                                   *)

OLMCatalogReady ==
    /\ ~pmReady
    /\ pmReady' = TRUE
    /\ UNCHANGED <<cfgVars, instVars, sub, plan, csv, sawInstalling>>

(* The subscription is resolved into an install plan; OLM approves it     *)
(* itself unless the subscription asks for Manual approval.                *)
OLMResolve ==
    /\ sub
    /\ plan = "none"
    /\ plan' = IF approval = "Manual" THEN "pending" ELSE "approved"
    /\ UNCHANGED <<cfgVars, instVars, pmReady, sub, csv, sawInstalling>>

(* The approved plan creates the CSV of an operator of the bundle.         *)
OLMCreateCsv(o) ==
    /\ plan = "approved"
    /\ o \in Bundle(ocsVersion)
    /\ csv[o] = "absent"
    /\ csv' = [csv EXCEPT ![o] = "Pending"]
    /\ UNCHANGED <<cfgVars, instVars, pmReady, sub, plan, sawInstalling>>

(* A CSV moves one phase on.                                               *)
OLMAdvanceCsv(o) ==
    /\ \/ csv[o] = "Pending" /\ csv' = [csv EXCEPT ![o] = "Installing"]
       \/ csv[o] = "Installing" /\ csv' = [csv EXCEPT ![o] = "Succeeded"]
       \/ csv[o] = "Installing" /\ csv' = [csv EXCEPT ![o] = "Failed"]
    /\ sawInstalling' = (sawInstalling \/
                         csv'[SubscribedOperator(ocsVersion)] = "Installing")
    /\ UNCHANGED <<cfgVars, instVars, pmReady, sub, plan>>

OLM ==
    \/ OLMCatalogReady
    \/ OLMResolve
    \/ \E o \in Operators : OLMCreateCsv(o) \/ OLMAdvanceCsv(o)

Next == Installer \/ OLM

(* The installer is one sequential thread that never stops while it has   *)
(* a step to take; OLM's progress is not assumed (timeouts model it).      *)
Spec == Init /\ [][Next]_vars /\ WF_vars(Installer)

-----------------------------------------------------------------------------
(* PROPERTIES                                                              *)

TypeOK ==
    /\ ocsVersion \in OcsVersions
    /\ ocpVersion \in OcpVersions
    /\ live \in BOOLEAN
    /\ approval \in Approvals
    /\ pc \in Steps
    /\ polls \in 0..MaxPolls
    /\ opIdx \in 1..4
    /\ failedAt \in Steps \cup {"none"}
    /\ approvals \in Nat
    /\ pmReady \in BOOLEAN
    /\ sub \in BOOLEAN
    /\ plan \in {"none", "pending", "approved"}
    /\ csv \in [Operators -> CsvPhases]
    /\ sawInstalling \in BOOLEAN

(* When deploy_ocs_via_operator finishes its loop, the CSV of every        *)
(* operator in ocs_operator_names has Succeeded: the storage cluster is    *)
(* never created on top of an operator that is still installing.           *)
InstalledMeansSucceeded ==
    pc = "done" => \A i \in 1..Len(Names) : csv[Names[i]] = "Succeeded"

(* The installer never polls for a CSV while the install plan still waits  *)
(* for approval, which in Manual mode is the deadlock the approval step of *)
(* subscribe_ocs exists to avoid: such a poll could only time out.         *)
NoCsvWaitOnPendingPlan ==
    pc \in {"wait_installing", "wait_csv", "wait_succeeded"} => plan # "pending"

(* Every run of the installer ends, in done or in failed: each wait of     *)
(* subscribe_ocs and deploy_ocs_via_operator is bounded by its timeout.    *)
InstallerTerminates == <>(pc \in {"done", "failed"})

(* The Installing wait of Manual mode only times out when the CSV never    *)
(* was Installing (what the typed timeout of the spec promises).           *)
InstallingTimeoutIsGenuine ==
    failedAt = "wait_installing" => ~sawInstalling

=============================================================================
