------------------------- MODULE ExternalModeProofs --------------------------
(***************************************************************************)
(* Proofs about the external-mode branch of deploy_ocs, for every         *)
(* configuration and every external cluster ExternalAssumption allows:    *)
(* each step of the branch is a step of the abstract deployment, and the  *)
(* secret it creates carries the report of a successful exporter run.     *)
(***************************************************************************)
EXTENDS ExternalMode, OrderLemmas, TLAPS

\* FirstOf picks the least element of a non-empty set of node numbers.
LEMMA FirstOfIn ==
    ASSUME NEW S \in SUBSET Nat, S # {}
    PROVE  FirstOf(S) \in S
BY NatMinExists DEF FirstOf

-----------------------------------------------------------------------------
(***************************************************************************)
(* Refinement.  Every step of the deployer maps, through PhaseOf, to a    *)
(* step of ExternalModeAbstract or to a stutter: Go moves to the next     *)
(* step, which is in the same phase or the next one, and Raise moves a    *)
(* step that has not ended to "failed".                                    *)
(***************************************************************************)

\* The successor of each step is in its phase or in the next phase.
LEMMA AfterPhase ==
    ASSUME NEW s \in DOMAIN After
    PROVE  \/ PhaseOf(After[s]) = PhaseOf(s)
           \/ \E k \in 1..5 : /\ PhaseOf(s) = Abstract!Phases[k]
                              /\ PhaseOf(After[s]) = Abstract!Phases[k + 1]
<1>1. CASE s \in {"secret", "cluster", "toolbox"}
  <2>1. /\ PhaseOf("secret") = Abstract!Phases[3]
        /\ PhaseOf("cluster") = Abstract!Phases[4]
        /\ PhaseOf("validate") = Abstract!Phases[5]
        /\ PhaseOf("done") = Abstract!Phases[6]
    BY DEF PhaseOf, Abstract!Phases
  <2>2. /\ PhaseOf("keyring") = Abstract!Phases[2]
        /\ PhaseOf("toolbox") = Abstract!Phases[5]
    BY DEF PhaseOf, Abstract!Phases
  <2>. QED
    BY <1>1, <2>1, <2>2 DEF After
<1>2. CASE s \in {"keyring", "rook_log"}
  <2>1. /\ PhaseOf("keyring") = Abstract!Phases[2]
        /\ PhaseOf("secret") = Abstract!Phases[3]
        /\ PhaseOf("rook_log") = Abstract!Phases[1]
        /\ PhaseOf("client") = Abstract!Phases[2]
    BY DEF PhaseOf, Abstract!Phases
  <2>. QED
    BY <1>2, <2>1 DEF After
<1>3. CASE s \notin {"secret", "cluster", "toolbox", "keyring", "rook_log"}
  BY <1>3 DEF After, PhaseOf
<1>. QED
  BY <1>1, <1>2, <1>3

\* A step of After has not ended.
LEMMA StepNotEnded ==
    ASSUME NEW s \in DOMAIN After
    PROVE  PhaseOf(s) \notin Abstract!Ended
BY DEF After, PhaseOf, Abstract!Ended

\* Go maps to an Advance or to a stutter of the phase.
LEMMA GoRefines ==
    ASSUME pc \in DOMAIN After, pc' = After[pc]
    PROVE  [Abstract!Next]_(PhaseOf(pc))
<1>1. CASE PhaseOf(After[pc]) = PhaseOf(pc)
  BY <1>1
<1>2. CASE \E k \in 1..5 : /\ PhaseOf(pc) = Abstract!Phases[k]
                           /\ PhaseOf(After[pc]) = Abstract!Phases[k + 1]
  BY <1>2 DEF Abstract!Next, Abstract!Advance
<1>. QED
  BY <1>1, <1>2, AfterPhase

\* Raise maps to a Fail.
LEMMA RaiseRefines ==
    ASSUME pc \in DOMAIN After, pc' = "failed"
    PROVE  [Abstract!Next]_(PhaseOf(pc))
<1>1. PhaseOf(pc') = "failed"
  BY DEF PhaseOf
<1>. QED
  BY <1>1, StepNotEnded DEF Abstract!Next, Abstract!Fail

\* A step of the deployer moves the step to its successor, to "failed",
\* or not at all, from a step of After.
LEMMA NextMoves ==
    ASSUME Next
    PROVE  /\ pc \in DOMAIN After
           /\ pc' \in {After[pc], "failed", pc}
BY DEF Next, Deployer, Command, CsvWait, Client, Port, Endpoint, Fs,
       Exporter, Keyring, Secret, Go, Raise, After

\* The external-mode branch implements the safety part of the abstract
\* deployment (RefinesAbstract without its fairness): it starts installing
\* the operators, moves through the phases in order, and fails only from
\* a phase that has not ended, whatever configuration and cluster it runs
\* against.
THEOREM RefinementSafe == Spec => Abstract!SafeSpec
<1>1. Init => Abstract!Init
  BY DEF Init, Abstract!Init, PhaseOf
<1>2. [Next]_vars => [Abstract!Next]_(PhaseOf(pc))
  <2> SUFFICES ASSUME [Next]_vars PROVE [Abstract!Next]_(PhaseOf(pc))
    OBVIOUS
  <2>1. CASE UNCHANGED vars
    BY <2>1 DEF vars
  <2>2. CASE Next
    <3>1. pc \in DOMAIN After /\ pc' \in {After[pc], "failed", pc}
      BY <2>2, NextMoves
    <3>2. CASE pc' = After[pc]
      BY <3>1, <3>2, GoRefines
    <3>3. CASE pc' = "failed"
      BY <3>1, <3>3, RaiseRefines
    <3>4. CASE pc' = pc
      BY <3>4
    <3>. QED
      BY <3>1, <3>2, <3>3, <3>4
  <2>. QED
    BY <2>1, <2>2
<1>. QED
  BY <1>1, <1>2, PTL DEF Spec, Abstract!SafeSpec

-----------------------------------------------------------------------------
(***************************************************************************)
(* The secret.  SecretFromExporter is not inductive: it says nothing of   *)
(* the stored details before the secret is created.  The strengthening    *)
(* follows the data: the endpoint and the filesystem name, once set, are  *)
(* those of the configuration and the cluster; the stored details, once   *)
(* the exporter has run, are its report on them and are never rewritten, *)
(* because the steps that could change the port are behind it; and the    *)
(* secret copies the stored details.                                      *)
(***************************************************************************)

\* The filesystem the exporter is pointed at.
ExpectedFs ==
    IF ~cfg.restricted THEN NoFs
    ELSE IF cfg.cephfsName THEN CfgFs ELSE ClusterFs

\* The report of a successful exporter run.
Expected ==
    Encode(Report([rgw |-> RgwEndpoint, port |-> port, fs |-> ExpectedFs]))

\* The steps from the exporter's successor on.
PostExporter ==
    {"keyring", "secret", "cluster", "validate", "toolbox", "done", "failed"}

IInv ==
    /\ cfg \in ConfigType
    /\ pc \in Steps
    /\ endpoint # NoAddress => RgwNodes # {} /\ endpoint = RgwEndpoint
    /\ fsName # Unset => fsName = IF cfg.cephfsName THEN CfgFs ELSE ClusterFs
    /\ pc = "fs" => endpoint # NoAddress
    /\ pc = "exporter" => endpoint # NoAddress /\ fsName # Unset
    /\ details # CfgDetails =>
         RgwNodes # {} /\ details = Expected /\ pc \in PostExporter
    /\ pc \in {"keyring", "secret"} => details # CfgDetails
    /\ secret # NoSecret => secret.details = details /\ details # CfgDetails


\* The definitions every case of the induction expands.
USE DEF IInv, Steps, After, PostExporter, NoAddress, Unset, CfgFs, ClusterFs,
        CfgDetails, NoSecret, Encode, Report

\* The operators that read the configuration only keep their value on a
\* step that leaves the configuration alone.
LEMMA CfgStable ==
    ASSUME cfg' = cfg
    PROVE  /\ RgwNodes' = RgwNodes
           /\ RgwEndpoint' = RgwEndpoint
           /\ ExpectedFs' = ExpectedFs
BY DEF RgwNodes, WithRole, Nodes, RgwEndpoint, Family, FirstOf, Address,
       ExpectedFs

\* So does the expected report on a step that leaves the port alone.
LEMMA ExpectedStable ==
    ASSUME cfg' = cfg, port' = port
    PROVE  Expected' = Expected
BY CfgStable DEF Expected

LEMMA InitIInv == Init => IInv
BY ExternalAssumption DEF Init, After

\* The report of a run pointed at an address is not the placeholder.
LEMMA ReportNotPlaceholder ==
    ASSUME NEW a, a.rgw # NoAddress
    PROVE  Encode(Report(a)) # CfgDetails
OBVIOUS

\* The steps that change none of the data keep IInv if they move the step
\* forward from a step whose successor constrains nothing.
LEMMA GoKeeps ==
    ASSUME IInv, Go, UNCHANGED dataVars,
           pc \in {"olm", "catalog", "subscribe", "csv", "rook_log", "client",
                   "cluster", "validate", "toolbox"}
    PROVE  IInv'
<1>1. cfg' = cfg /\ pc' = After[pc] /\ UNCHANGED dataVars
  BY DEF Go, cfgVars
<1>. QED
  BY <1>1, CfgStable, ExpectedStable DEF dataVars, After

\* Raise keeps IInv: the data stays, and "failed" follows the exporter.
LEMMA RaiseKeeps ==
    ASSUME IInv, Raise
    PROVE  IInv'
<1>1. cfg' = cfg /\ pc' = "failed" /\ UNCHANGED dataVars
  BY DEF Raise, cfgVars
<1>. QED
  BY <1>1, CfgStable, ExpectedStable DEF dataVars

LEMMA NextIInv == IInv /\ [Next]_vars => IInv'
<1> SUFFICES ASSUME IInv, [Next]_vars PROVE IInv'
  OBVIOUS
<1>1. CASE UNCHANGED vars
  BY <1>1, CfgStable, ExpectedStable DEF vars, cfgVars, dataVars
<1>2. CASE Command
  BY <1>2, GoKeeps, RaiseKeeps DEF Command
<1>3. CASE CsvWait
  <2>1. CASE opIdx' = opIdx + 1 /\ UNCHANGED <<cfgVars, pc, failedAt, port,
               endpoint, fsName, details, keyring, secret>>
    BY <2>1, CfgStable, ExpectedStable DEF cfgVars
  <2>. QED
    BY <1>3, <2>1, GoKeeps, RaiseKeeps DEF CsvWait
<1>4. CASE Client
  BY <1>4, GoKeeps, RaiseKeeps DEF Client
<1>5. CASE Port
  <2>1. details = CfgDetails /\ secret = NoSecret /\ pc = "port"
    BY <1>5 DEF Port
  <2>2. CASE pc' = After[pc] /\ UNCHANGED <<cfgVars, failedAt>>
             /\ UNCHANGED <<opIdx, endpoint, fsName, details, keyring, secret>>
    <3>1. cfg' = cfg /\ pc' = "endpoint"
      BY <2>1, <2>2 DEF After, cfgVars
    <3>. QED
      BY <2>1, <2>2, <3>1, CfgStable
  <2>. QED
    BY <1>5, <2>2, RaiseKeeps DEF Port, Go
<1>6. CASE Endpoint
  <2>1. CASE RgwNodes # {} /\ endpoint' = RgwEndpoint /\ Go
             /\ UNCHANGED <<opIdx, port, fsName, details, keyring, secret>>
             /\ pc = "endpoint"
    <3>1. cfg' = cfg /\ pc' = "fs"
      BY <2>1 DEF Go, After, cfgVars
    <3>2. RgwEndpoint # NoAddress
      BY DEF RgwEndpoint, Address, Family
    <3>. QED
      BY <2>1, <3>1, <3>2, CfgStable, ExpectedStable
  <2>. QED
    BY <1>6, <2>1, RaiseKeeps DEF Endpoint
<1>7. CASE Fs
  <2>1. CASE fsName' = (IF cfg.cephfsName THEN CfgFs ELSE ClusterFs) /\ Go
             /\ UNCHANGED <<opIdx, port, endpoint, details, keyring, secret>>
             /\ pc = "fs"
    <3>1. cfg' = cfg /\ pc' = "exporter"
      BY <2>1 DEF Go, After, cfgVars
    <3>2. fsName' # Unset
      BY <2>1
    <3>. QED
      BY <2>1, <3>1, <3>2, CfgStable, ExpectedStable
  <2>. QED
    BY <1>7, <2>1, RaiseKeeps DEF Fs
<1>8. CASE Exporter
  <2>1. CASE details' = Encode(Report(Args)) /\ Go
             /\ UNCHANGED <<opIdx, port, endpoint, fsName, keyring, secret>>
             /\ pc = "exporter"
    <3>1. endpoint = RgwEndpoint /\ RgwNodes # {} /\ endpoint # NoAddress
      BY <2>1
    <3>2. fsName = IF cfg.cephfsName THEN CfgFs ELSE ClusterFs
      BY <2>1
    <3>3. Args = [rgw |-> RgwEndpoint, port |-> port, fs |-> ExpectedFs]
      BY <3>1, <3>2 DEF Args, ExpectedFs
    <3>4. details' = Expected /\ details' # CfgDetails
      BY <2>1, <3>1, <3>3, ReportNotPlaceholder DEF Expected
    <3>5. cfg' = cfg /\ pc' = "keyring"
      BY <2>1 DEF Go, After, cfgVars
    <3>. QED
      BY <2>1, <3>1, <3>4, <3>5, CfgStable, ExpectedStable
  <2>. QED
    BY <1>8, <2>1, RaiseKeeps DEF Exporter
<1>9. CASE Keyring
  <2>1. CASE Go /\ UNCHANGED <<opIdx, port, endpoint, fsName, details, secret>>
             /\ pc = "keyring"
    <3>1. cfg' = cfg /\ pc' = "secret"
      BY <2>1 DEF Go, After, cfgVars
    <3>. QED
      BY <2>1, <3>1, CfgStable, ExpectedStable
  <2>. QED
    BY <1>9, <2>1, RaiseKeeps DEF Keyring
<1>10. CASE Secret
  <2>1. CASE secret' = [details |-> details] /\ Go
             /\ UNCHANGED <<opIdx, port, endpoint, fsName, details, keyring>>
             /\ pc = "secret"
    <3>1. cfg' = cfg /\ pc' = "cluster"
      BY <2>1 DEF Go, After, cfgVars
    <3>. QED
      BY <2>1, <3>1, CfgStable, ExpectedStable
  <2>. QED
    BY <1>10, <2>1, RaiseKeeps DEF Secret
<1>. QED
  BY <1>1, <1>2, <1>3, <1>4, <1>5, <1>6, <1>7, <1>8, <1>9, <1>10
     DEF Next, Deployer


\* IInv implies SecretFromExporter: the secret carries the stored details,
\* which are the report on RgwEndpoint, the address of a node with the
\* rgw role.
LEMMA IInvSecret == IInv => SecretFromExporter
<1> SUFFICES ASSUME IInv, secret # NoSecret
             PROVE  SecretFromExporter
  BY DEF SecretFromExporter
<1>1. RgwNodes # {} /\ secret.details = Expected
  OBVIOUS
<1>2. RgwNodes \subseteq Nat
  <2>1. cfg.roles \in Seq(SUBSET NodeRoles)
    BY DEF ConfigType
  <2>. QED
    BY <2>1 DEF RgwNodes, WithRole, Nodes
<1>3. FirstOf(RgwNodes) \in RgwNodes
  BY <1>1, <1>2, FirstOfIn
<1>. QED
  BY <1>1, <1>3 DEF SecretFromExporter, Expected, ExpectedFs, RgwEndpoint

\* The secret the external-mode branch creates carries the report of a
\* successful exporter run on an RGW node of the configuration, with the
\* port and the filesystem the branch found (get_external_cluster_details),
\* for every configuration and cluster.
THEOREM SecretSafe == Spec => []SecretFromExporter
<1>1. Init => IInv
  BY InitIInv
<1>2. IInv /\ [Next]_vars => IInv'
  BY NextIInv
<1>3. IInv => SecretFromExporter
  BY IInvSecret
<1>. QED
  BY <1>1, <1>2, <1>3, PTL DEF Spec

-----------------------------------------------------------------------------
(***************************************************************************)
(* Types.  TypeOK is inductive as it stands: every step that raises is    *)
(* one of After's, so failedAt is one of them, and the loop over the CSVs *)
(* stops at the number of operators.                                       *)
(***************************************************************************)

\* The successor of every step of the sequence is a step.
LEMMA AfterInSteps ==
    /\ \A s \in DOMAIN After : After[s] \in Steps
    /\ "failed" \in Steps /\ "olm" \in Steps
    /\ DOMAIN After = {"olm", "catalog", "subscribe", "csv", "rook_log",
                       "client", "port", "endpoint", "fs", "exporter",
                       "keyring", "secret", "cluster", "validate", "toolbox"}
BY DEF After, Steps

\* The type proofs need none of the definitions of the secret's induction,
\* and of the sequence only what AfterInSteps states.
HIDE DEF IInv, PostExporter, CfgDetails, NoSecret, Encode, Report, After, Steps
USE AfterInSteps

\* The ports get_rgw_endpoint_api_port can return, and the addresses.
PortValues == {Unset} \cup {DumpPort[f] : f \in DOMAIN DumpPort}
                      \cup {ConfPort[l] : l \in DOMAIN ConfPort}
AddressValues == {NoAddress} \cup {Address(n, f) : n \in Nodes,
                                   f \in {"fqdn", "ipv6", "ipv4"}}

LEMMA InitTypeOK == Init => TypeOK
<1> SUFFICES ASSUME Init PROVE TypeOK
  OBVIOUS
<1>1. /\ cfg \in Configs /\ rhcs \in Clusters /\ pc \in Steps
      /\ failedAt \in DOMAIN After \cup {"none"} /\ opIdx \in 0..2
  BY AfterInSteps DEF Init
<1>2. /\ port \in {Unset} \cup {DumpPort[f] : f \in DOMAIN DumpPort}
                         \cup {ConfPort[l] : l \in DOMAIN ConfPort}
      /\ endpoint \in {NoAddress} \cup {Address(n, f) : n \in Nodes,
                                        f \in {"fqdn", "ipv6", "ipv4"}}
  BY DEF Init
<1>3. fsName \in {Unset, CfgFs, ClusterFs} /\ keyring \in {CfgKey, ClusterKey}
  BY DEF Init
<1>. QED
  BY <1>1, <1>2, <1>3 DEF TypeOK

\* A raise from a step of the sequence leaves the data as it was.
LEMMA RaiseTyped ==
    ASSUME TypeOK, Raise, pc \in DOMAIN After
    PROVE  TypeOK'
<1>1. /\ pc' = "failed" /\ failedAt' = pc
      /\ UNCHANGED <<cfg, rhcs, opIdx, port, endpoint, fsName, keyring>>
  BY DEF Raise, cfgVars, dataVars
<1>3. pc' \in Steps
  BY <1>1, AfterInSteps
<1>2. Nodes' = Nodes
  BY <1>1 DEF Nodes
<1>. QED
  BY <1>1, <1>2, <1>3 DEF TypeOK

\* So does a return that changes none of the data.
LEMMA GoTyped ==
    ASSUME TypeOK, Go, UNCHANGED dataVars, pc \in DOMAIN After
    PROVE  TypeOK'
<1>1. /\ pc' \in Steps
      /\ UNCHANGED <<cfg, rhcs, failedAt, opIdx, port, endpoint, fsName,
                     keyring>>
  BY AfterInSteps DEF Go, cfgVars, dataVars
<1>2. Nodes' = Nodes
  BY <1>1 DEF Nodes
<1>. QED
  BY <1>1, <1>2 DEF TypeOK

\* A return that writes the CephFS name, the details, the key or the
\* secret keeps the types when the name and the key are ones TypeOK names.
LEMMA GoDataTyped ==
    ASSUME TypeOK, Go, pc \in DOMAIN After,
           UNCHANGED <<opIdx, port, endpoint>>,
           fsName' \in {Unset, CfgFs, ClusterFs},
           keyring' \in {CfgKey, ClusterKey}
    PROVE  TypeOK'
<1>1. /\ pc' \in Steps
      /\ UNCHANGED <<cfg, rhcs, failedAt, opIdx, port, endpoint>>
  BY AfterInSteps DEF Go, cfgVars
<1>2. Nodes' = Nodes
  BY <1>1 DEF Nodes
<1>. QED
  BY <1>1, <1>2 DEF TypeOK

\* The address get_rgw_endpoint returns is that of a configured node.
LEMMA RgwEndpointTyped ==
    ASSUME cfg \in ConfigType, RgwNodes # {}
    PROVE  RgwEndpoint \in AddressValues
<1>1. RgwNodes \subseteq Nodes /\ Nodes \subseteq Nat
  <2>1. cfg.roles \in Seq(SUBSET NodeRoles)
    BY DEF ConfigType
  <2>. QED
    BY <2>1 DEF RgwNodes, WithRole, Nodes
<1>2. FirstOf(RgwNodes) \in Nodes
  BY <1>1, FirstOfIn
<1>. QED
  BY <1>2 DEF RgwEndpoint, AddressValues, Family

LEMMA NextTypeOK == TypeOK /\ [Next]_vars => TypeOK'
<1> SUFFICES ASSUME TypeOK, [Next]_vars PROVE TypeOK'
  OBVIOUS
<1>0. cfg \in ConfigType
  BY ExternalAssumption DEF TypeOK
<1>1. CASE Command
  BY <1>1, RaiseTyped, GoTyped DEF Command
<1>2. CASE CsvWait
  <2>1. NumOperators \in {1, 2}
    BY DEF NumOperators
  <2>2. CASE opIdx < NumOperators /\ opIdx' = opIdx + 1
             /\ UNCHANGED <<cfgVars, pc, failedAt, port, endpoint, fsName,
                            details, keyring, secret>>
    <3>1. opIdx' \in 0..2
      BY <2>1, <2>2 DEF TypeOK
    <3>2. Nodes' = Nodes
      BY <2>2 DEF Nodes, cfgVars
    <3>. QED
      BY <2>2, <3>1, <3>2 DEF TypeOK, cfgVars
  <2>. QED
    BY <1>2, <2>2, RaiseTyped, GoTyped DEF CsvWait
<1>3. CASE Client
  BY <1>3, RaiseTyped, GoTyped DEF Client
<1>4. CASE Port
  <2>1. CASE /\ \/ port' = DumpPort[rhcs.frontends] /\ rhcs.frontends # "absent"
                \/ port' = ConfPort[rhcs.confLine]
             /\ Go
             /\ UNCHANGED <<opIdx, endpoint, fsName, details, keyring, secret>>
    <3>1. rhcs.frontends \in Frontends /\ rhcs.confLine \in ConfLines
      BY ExternalAssumption DEF TypeOK, ClusterType
    <3>2. port' \in PortValues
      BY <2>1, <3>1 DEF PortValues, Frontends, ConfLines, DumpPort, ConfPort
    <3>3. pc = "port"
      BY <1>4 DEF Port
    <3>4. /\ pc' \in Steps
          /\ UNCHANGED <<cfg, rhcs, failedAt, opIdx, endpoint, fsName,
                         details, keyring, secret>>
      BY <2>1, <3>3, AfterInSteps DEF Go, cfgVars
    <3>. QED
      BY <3>2, <3>4 DEF TypeOK, Nodes, PortValues
  <2>. QED
    BY <1>4, <2>1, RaiseTyped DEF Port
<1>5. CASE Endpoint
  <2>1. CASE RgwNodes # {} /\ endpoint' = RgwEndpoint /\ Go
             /\ UNCHANGED <<opIdx, port, fsName, details, keyring, secret>>
    <3>1. RgwEndpoint \in AddressValues
      BY <1>0, <2>1, RgwEndpointTyped
    <3>2. pc = "endpoint"
      BY <1>5 DEF Endpoint
    <3>3. /\ pc' \in Steps
          /\ UNCHANGED <<cfg, rhcs, failedAt, opIdx, port, fsName, details,
                         keyring, secret>>
      BY <2>1, <3>2, AfterInSteps DEF Go, cfgVars
    <3>4. endpoint' \in {NoAddress} \cup {Address(n, f) : n \in Nodes',
                                          f \in {"fqdn", "ipv6", "ipv4"}}
      BY <2>1, <3>1, <3>3 DEF AddressValues, Nodes
    <3>5. /\ cfg' \in Configs /\ rhcs' \in Clusters /\ pc' \in Steps
          /\ failedAt' \in DOMAIN After \cup {"none"}
          /\ opIdx' \in 0..2
      BY <3>3 DEF TypeOK
    <3>6. /\ port' \in {Unset} \cup {DumpPort[f] : f \in DOMAIN DumpPort}
                            \cup {ConfPort[l] : l \in DOMAIN ConfPort}
          /\ fsName' \in {Unset, CfgFs, ClusterFs}
          /\ keyring' \in {CfgKey, ClusterKey}
      BY <3>3 DEF TypeOK
    <3>. QED
      BY <3>4, <3>5, <3>6 DEF TypeOK
  <2>. QED
    BY <1>5, <2>1, RaiseTyped DEF Endpoint
<1>6. CASE Fs
  <2>1. pc = "fs" /\ pc \in DOMAIN After
    BY <1>6 DEF Fs
  <2>2. keyring \in {CfgKey, ClusterKey}
    BY DEF TypeOK
  <2>. QED
    BY <1>6, <2>1, <2>2, RaiseTyped, GoDataTyped DEF Fs
<1>7. CASE Exporter
  <2>1. pc = "exporter" /\ pc \in DOMAIN After
    BY <1>7 DEF Exporter
  <2>2. fsName \in {Unset, CfgFs, ClusterFs} /\ keyring \in {CfgKey, ClusterKey}
    BY DEF TypeOK
  <2>. QED
    BY <1>7, <2>1, <2>2, RaiseTyped, GoDataTyped DEF Exporter
<1>8. CASE Keyring
  <2>1. pc = "keyring" /\ pc \in DOMAIN After
    BY <1>8 DEF Keyring
  <2>2. fsName \in {Unset, CfgFs, ClusterFs} /\ keyring \in {CfgKey, ClusterKey}
    BY DEF TypeOK
  <2>. QED
    BY <1>8, <2>1, <2>2, RaiseTyped, GoDataTyped DEF Keyring
<1>9. CASE Secret
  <2>1. pc = "secret" /\ pc \in DOMAIN After
    BY <1>9 DEF Secret
  <2>2. fsName \in {Unset, CfgFs, ClusterFs} /\ keyring \in {CfgKey, ClusterKey}
    BY DEF TypeOK
  <2>. QED
    BY <1>9, <2>1, <2>2, RaiseTyped, GoDataTyped DEF Secret
<1>10. CASE UNCHANGED vars
  <2>1. UNCHANGED <<cfg, rhcs, pc, failedAt, opIdx, port, endpoint, fsName,
                    keyring>>
    BY <1>10 DEF vars, cfgVars, dataVars
  <2>2. Nodes' = Nodes
    BY <2>1 DEF Nodes
  <2>. QED
    BY <2>1, <2>2 DEF TypeOK
<1>. QED
  BY <1>1, <1>2, <1>3, <1>4, <1>5, <1>6, <1>7, <1>8, <1>9, <1>10
  DEF Next, Deployer

\* Every variable of the external-mode branch keeps its type: failedAt
\* names a step of the sequence, the CSV loop never passes the number of
\* operators, and the port and the endpoint are ones the helpers return.
THEOREM TypeCorrect == Spec => []TypeOK
BY InitTypeOK, NextTypeOK, PTL DEF Spec

=============================================================================
