---------------------------- MODULE MCExternalMode ----------------------------
(***************************************************************************)
(* A model of the external-mode branch for TLC.  The node lists put the   *)
(* rgw role on the first node, on a later node only, or on no node, with  *)
(* and without a client node.  The configuration flags that only decide  *)
(* whether a command is issued (UI deployment, rook log level) keep one   *)
(* value; every flag the helpers read is varied, and so is every answer  *)
(* of the cluster.                                                         *)
(***************************************************************************)
EXTENDS ExternalMode

MCRoleLists == {<<{"mon", "rgw"}, {"client"}>>,
                <<{"mon"}, {"mon"}, {"rgw"}, {"rgw"}>>,
                <<{"mon"}>>}

MCConfigs ==
    [ui : {FALSE}, live : BOOLEAN, ocs49 : BOOLEAN, rookLog : {TRUE},
     roles : MCRoleLists, useFqdn : BOOLEAN, useIpv6 : BOOLEAN,
     cephfsName : BOOLEAN, restricted : BOOLEAN]

MCClusters == ClusterType

=============================================================================
