---------------------------- MODULE ExternalMode ----------------------------
(***************************************************************************)
(* The external-mode branch of the storage deploy:                         *)
(* Deployment.deploy_with_external_mode (deployment.py, lines 1032-1106)   *)
(* and the helpers of deployment/helpers/external_cluster_helpers.py it    *)
(* calls to learn the external RHCS cluster: the client node to connect   *)
(* to, the RGW endpoint and its port, the CephFS name, the exporter        *)
(* script run on the cluster, and the admin keyring.                       *)
(*                                                                         *)
(* The configuration is the record `cfg` and what the external cluster    *)
(* answers is the record `rhcs`, both fixed for the run.  A remote command *)
(* (Connection.exec_cmd) returns an exit code and its output; it may fail  *)
(* at any call, and a step that runs one may then raise.  The OLM steps   *)
(* (catalog source, subscription, CSV waits), modelled in OperatorInstall  *)
(* and CatalogSource, are here steps that return or raise.                 *)
(***************************************************************************)
EXTENDS Naturals, Sequences

CONSTANTS
    Configs,    \* the configurations the branch can be run with
    Clusters    \* the external clusters: what their commands answer

NodeRoles == {"mon", "rgw", "client"}

\* rgw_frontends in `ceph config dump` (Ceph 5): absent, or the beast
\* frontend with "port=8080", with "ssl_port=443 ssl_certificate=..." or
\* with "endpoint=10.1.0.5:8080".
Frontends == {"absent", "port", "ssl_cert", "endpoint"}

\* The `rgw frontends` line of /etc/ceph/ceph.conf on the RGW node (Ceph
\* 4): absent, "beast endpoint=10.1.0.5:8080" or "civetweb port=8080".
ConfLines == {"absent", "endpoint", "port"}

\* /etc/redhat-release of the external host, as <<major, minor>>.
Releases == {<<7, 9>>, <<8, 10>>, <<9, 4>>, <<10, 0>>}

ConfigType ==
    [ui : BOOLEAN, live : BOOLEAN, ocs49 : BOOLEAN, rookLog : BOOLEAN,
     roles : Seq(SUBSET NodeRoles), useFqdn : BOOLEAN, useIpv6 : BOOLEAN,
     cephfsName : BOOLEAN, restricted : BOOLEAN]

ClusterType ==
    [fs : BOOLEAN, frontends : Frontends, confLine : ConfLines,
     rhel : Releases]

ASSUME ExternalAssumption ==
    /\ Configs \subseteq ConfigType
    /\ Clusters \subseteq ClusterType

\* Values the state holds.  The configured admin key is not the cluster's
\* (a placeholder of the configuration file).
Unset == "unset"
CfgKey == "configured-key"
ClusterKey == "cluster-key"
CfgFs == "configured-fs"
ClusterFs == "cluster-fs"
NoFs == ""
NoOutput == ""
NoAddress == <<0, "none">>

VARIABLES
    cfg,       \* config.DEPLOYMENT, ENV_DATA and EXTERNAL_MODE (read-only)
    rhcs,      \* the external cluster (read-only)
    pc,        \* the step of deploy_with_external_mode
    failedAt,  \* the step whose exception ended the run, or "none"
    opIdx,     \* operators of ocs_operator_names whose CSV succeeded
    port,      \* rgw_endpoint_port
    endpoint,  \* rgw_endpoint
    fsName,    \* ceph_fs_name
    details,   \* config.EXTERNAL_MODE["external_cluster_details"]
    keyring,   \* config.EXTERNAL_MODE["admin_keyring"]["key"]
    secret     \* the external cluster secret, or NoSecret

cfgVars == <<cfg, rhcs>>
dataVars == <<opIdx, port, endpoint, fsName, details, keyring, secret>>
vars == <<cfgVars, pc, failedAt, dataVars>>

-----------------------------------------------------------------------------
(* Values computed from the configuration and the cluster.                 *)

\* ocs_operator_names: odf-operator and ocs-operator from 4.9 on.
NumOperators == IF cfg.ocs49 THEN 2 ELSE 1

\* The nodes of external_cluster_node_roles, keyed node1, node2, ... in
\* the order of the configuration.
Nodes == DOMAIN cfg.roles
WithRole(r) == {n \in Nodes : r \in cfg.roles[n]}
FirstOf(S) == CHOOSE n \in S : \A m \in S : n <= m

\* The address get_rgw_endpoint takes: the FQDN, else the IPv6, else the
\* IPv4 address of the node.
Family ==
    IF cfg.useFqdn THEN "fqdn" ELSE IF cfg.useIpv6 THEN "ipv6" ELSE "ipv4"
Address(n, f) == <<n, f>>

\* get_rgw_endpoint: the address of the first node with the rgw role.
RgwNodes == WithRole("rgw")
RgwEndpoint == Address(FirstOf(RgwNodes), Family)

\* The port text of get_rgw_endpoint_api_port: value.split("=")[-1] of
\* rgw_frontends, or out.split(":")[-1] of the ceph.conf line.
DumpPort == [port |-> "8080", ssl_cert |-> "config://rgw/cert",
             endpoint |-> "10.1.0.5:8080"]
ConfPort == [endpoint |-> "8080", port |-> "rgw frontends = civetweb port=8080",
             absent |-> ""]

\* get_rhel_version searches ".*(\d+.\d+).*": the greedy prefix leaves
\* only the last digit of the major version to the group.  The interpreter
\* is "python" when that version is below 8.
Interpreter(r) == IF r[1] % 10 < 8 THEN "python" ELSE "python3"

\* The host has the interpreter: RHEL 8 and later ship no "python".
HasInterpreter(r, i) == i = "python3" \/ r[1] < 8

\* The parameters of the exporter run of get_external_cluster_details.
Args == [rgw |-> endpoint, port |-> port,
         fs |-> IF cfg.restricted THEN fsName ELSE NoFs]

\* The exporter script reports the cluster it was pointed at, and the
\* output is stored base64-encoded.
Report(a) == [cluster |-> a]
Encode(out) == [base64 |-> out]

\* The configuration's value before the run, and no secret.
CfgDetails == Encode(Report([rgw |-> NoAddress, port |-> Unset, fs |-> Unset]))
NoSecret == [details |-> CfgDetails]

\* Mutant of After: create_external_secret dropped from the sequence.
AfterSkipsSecret ==
    [olm |-> "catalog", catalog |-> "subscribe", subscribe |-> "csv",
     csv |-> "rook_log", rook_log |-> "client", client |-> "port",
     port |-> "endpoint", endpoint |-> "fs", fs |-> "exporter",
     exporter |-> "keyring", keyring |-> "cluster", secret |-> "cluster",
     cluster |-> "validate", validate |-> "toolbox", toolbox |-> "done"]

-----------------------------------------------------------------------------
(* The steps, in the order deploy_with_external_mode takes them.           *)
After == [olm |-> "catalog", catalog |-> "subscribe", subscribe |-> "csv",
          csv |-> "rook_log", rook_log |-> "client", client |-> "port",
          port |-> "endpoint", endpoint |-> "fs", fs |-> "exporter",
          exporter |-> "keyring", keyring |-> "secret", secret |-> "cluster",
          cluster |-> "validate", validate |-> "toolbox", toolbox |-> "done"]

Steps == DOMAIN After \cup {"done", "failed"}

Init ==
    /\ cfg \in Configs
    /\ rhcs \in Clusters
    /\ pc = "olm"
    /\ failedAt = "none"
    /\ opIdx = 0
    /\ port = Unset
    /\ endpoint = NoAddress
    /\ fsName = Unset
    /\ details = CfgDetails
    /\ keyring = CfgKey
    /\ secret = NoSecret

\* An exception nothing catches ends the run where it is.
Raise ==
    /\ pc' = "failed"
    /\ failedAt' = pc
    /\ UNCHANGED <<cfgVars, dataVars>>

\* The step returns to the next one.
Go == pc' = After[pc] /\ UNCHANGED <<cfgVars, failedAt>>

\* A step skipped by the configuration issues no command.
Skipped ==
    \/ pc = "olm" /\ cfg.ui
    \/ pc = "catalog" /\ cfg.live
    \/ pc = "rook_log" /\ ~cfg.rookLog

\* Lines 1039-1045, 1069-1070, 1083-1091 and 1093-1106: the commands that
\* change nothing the model records (the OLM manifest, the catalog source,
\* subscribe_ocs, the rook log level, the StorageCluster, the health
\* check, the toolbox); each returns or raises.
Command ==
    /\ pc \in {"olm", "catalog", "subscribe", "rook_log", "cluster",
               "validate", "toolbox"}
    /\ \/ Go /\ UNCHANGED dataVars
       \/ ~Skipped /\ Raise

\* Mutant of CsvWait: the loop bound off by one.
CsvWaitOffByOne ==
    /\ pc = "csv"
    /\ \/ /\ opIdx <= NumOperators
          /\ opIdx' = opIdx + 1
          /\ UNCHANGED <<cfgVars, pc, failedAt, port, endpoint, fsName,
                         details, keyring, secret>>
       \/ opIdx > NumOperators /\ Go /\ UNCHANGED dataVars
       \/ opIdx <= NumOperators /\ Raise

\* Lines 1046-1067: for each operator name, wait for its package manifest
\* and for its CSV to reach Succeeded; a wait that times out raises.
CsvWait ==
    /\ pc = "csv"
    /\ \/ /\ opIdx < NumOperators
          /\ opIdx' = opIdx + 1
          /\ UNCHANGED <<cfgVars, pc, failedAt, port, endpoint, fsName,
                         details, keyring, secret>>
       \/ opIdx = NumOperators /\ Go /\ UNCHANGED dataVars
       \/ opIdx < NumOperators /\ Raise

\* Lines 1073-1074 and 367-381: the client node, else node1 (a KeyError
\* when there is none); the SSH connection to it may fail.
Client ==
    /\ pc = "client"
    /\ \/ /\ WithRole("client") # {} \/ 1 \in Nodes
          /\ Go /\ UNCHANGED dataVars
       \/ Raise

\* Lines 62-63 and 117-156, get_rgw_endpoint_api_port: the port of
\* rgw_frontends in the config dump; when the dump fails or has no such
\* entry, the port of the ceph.conf line on the RGW node
\* (get_rgw_endpoint raises when no node has the role); no port raises.
Port ==
    /\ pc = "port"
    /\ \/ /\ rhcs.frontends # "absent"
          /\ port' = DumpPort[rhcs.frontends]
          /\ Go
          /\ UNCHANGED <<opIdx, endpoint, fsName, details, keyring, secret>>
       \/ /\ RgwNodes # {}
          /\ ConfPort[rhcs.confLine] # ""
          /\ port' = ConfPort[rhcs.confLine]
          /\ Go
          /\ UNCHANGED <<opIdx, endpoint, fsName, details, keyring, secret>>
       \/ Raise

\* Lines 65-67 and 339-364: get_rgw_endpoint, which reads the
\* configuration only.
Endpoint ==
    /\ pc = "endpoint"
    /\ IF RgwNodes = {}
       THEN Raise
       ELSE /\ endpoint' = RgwEndpoint
            /\ Go
            /\ UNCHANGED <<opIdx, port, fsName, details, keyring, secret>>

\* Lines 69-70 and 277-293: the configured name, else the first entry of
\* `ceph fs ls`; a failed command or an empty list raises.
Fs ==
    /\ pc = "fs"
    /\ \/ /\ fsName' = IF cfg.cephfsName THEN CfgFs ELSE ClusterFs
          /\ cfg.cephfsName \/ rhcs.fs
          /\ Go
          /\ UNCHANGED <<opIdx, port, endpoint, details, keyring, secret>>
       \/ ~cfg.cephfsName /\ Raise

\* Mutant of Exporter: the exit code of the script not checked, so the
\* empty output of a failed run is stored.
ExporterIgnoresExitCode ==
    /\ pc = "exporter"
    /\ \/ /\ details' =
              IF HasInterpreter(rhcs.rhel, Interpreter(rhcs.rhel))
              THEN Encode(Report(Args))
              ELSE Encode(Report([rgw |-> NoAddress, port |-> NoOutput,
                                  fs |-> NoFs]))
          /\ Go
          /\ UNCHANGED <<opIdx, port, endpoint, fsName, keyring, secret>>
       \/ Raise

\* Lines 72-91 with run_exporter_script (183-213), upload_exporter_script
\* (93-103), generate_exporter_script (296-336) and get_rhel_version
\* (158-170): the script is taken from the CSV annotations, uploaded and
\* run; a non-zero exit raises, else its encoded output is stored.
Exporter ==
    /\ pc = "exporter"
    /\ \/ /\ HasInterpreter(rhcs.rhel, Interpreter(rhcs.rhel))
          /\ details' = Encode(Report(Args))
          /\ Go
          /\ UNCHANGED <<opIdx, port, endpoint, fsName, keyring, secret>>
       \/ Raise

\* Lines 1077-1078 and 105-115, get_admin_keyring: the word two after
\* "key" in the output of `ceph auth get client.admin`.  The exit code is
\* not read: a failed command leaves no "key" word and the key as it was.
\* The key is read later by setup_ceph_toolbox, which is not modelled.
Keyring ==
    /\ pc = "keyring"
    /\ \/ /\ keyring' \in {keyring, ClusterKey}
          /\ Go
          /\ UNCHANGED <<opIdx, port, endpoint, fsName, details, secret>>
       \/ Raise

\* Lines 1080-1081, create_external_secret: the secret holds the stored,
\* re-encoded output of the exporter.
Secret ==
    /\ pc = "secret"
    /\ \/ /\ secret' = [details |-> details]
          /\ Go
          /\ UNCHANGED <<opIdx, port, endpoint, fsName, details, keyring>>
       \/ Raise

Deployer ==
    \/ Command \/ CsvWait \/ Client \/ Port \/ Endpoint \/ Fs \/ Exporter
    \/ Keyring \/ Secret

Next == Deployer

\* The branch is one sequential call; every step returns or raises.
Spec == Init /\ [][Next]_vars /\ WF_vars(Deployer)

-----------------------------------------------------------------------------
(* Properties.                                                             *)

TypeOK ==
    /\ cfg \in Configs
    /\ rhcs \in Clusters
    /\ pc \in Steps
    /\ failedAt \in DOMAIN After \cup {"none"}
    /\ opIdx \in 0..2
    /\ port \in {Unset} \cup {DumpPort[f] : f \in DOMAIN DumpPort}
                        \cup {ConfPort[l] : l \in DOMAIN ConfPort}
    /\ endpoint \in {NoAddress} \cup {Address(n, f) : n \in Nodes,
                                   f \in {"fqdn", "ipv6", "ipv4"}}
    /\ fsName \in {Unset, CfgFs, ClusterFs}
    /\ keyring \in {CfgKey, ClusterKey}

\* The secret the StorageCluster reads carries the report of an exporter
\* run that succeeded, pointed at an RGW node in the configured address
\* family and, under restricted auth, at the configured filesystem or
\* else one the cluster has (get_external_cluster_details, lines 54-91).
SecretFromExporter ==
    secret # NoSecret =>
        \E n \in RgwNodes :
            secret.details =
                Encode(Report([rgw |-> Address(n, Family), port |-> port,
                               fs |-> IF ~cfg.restricted THEN NoFs
                                      ELSE IF cfg.cephfsName THEN CfgFs
                                      ELSE ClusterFs]))

\* The phase of ExternalModeAbstract each step belongs to.
PhaseOf(s) ==
    IF s \in {"olm", "catalog", "subscribe", "csv", "rook_log"} THEN "install"
    ELSE IF s \in {"client", "port", "endpoint", "fs", "exporter", "keyring"}
         THEN "gather"
    ELSE IF s \in {"validate", "toolbox"} THEN "validate"
    ELSE s

Abstract == INSTANCE ExternalModeAbstract WITH phase <- PhaseOf(pc)

\* The branch implements the abstract deployment: the operators, then the
\* cluster details, the secret, the StorageCluster and the validation, in
\* that order, a failure is final, and the run ends.
RefinesAbstract == Abstract!Spec

=============================================================================
