----------------------- MODULE MCStorageClusterCompose -----------------------
(***************************************************************************)
(* A model of the composer for TLC.  The plans vary every flag an overlay *)
(* reads; a flag that only matters under another one (the arbiter zone    *)
(* without arbiter, the PV list off bare metal) keeps one value when that *)
(* other flag is off, since the runs would be the same.                   *)
(***************************************************************************)
EXTENDS StorageClusterCompose

MCComponents == {"cephfs", "noobaa"}

MCComponentsMap == [c \in MCComponents |->
                      IF c = "cephfs" THEN "cephFilesystems"
                      ELSE "multiCloudGateway"]

MCZones == {"z1", "z2", "z3"}

\* Two PVs whose strings sort the other way round from their sizes.
MCPvLists == {<<>>, <<[n |-> 931, unit |-> "Gi"], [n |-> 1863, unit |-> "Gi"]>>}

\* Plans that differ only in a flag no code reads under them are left out.
Canonical(p) ==
    /\ ~p.arbiter => ~p.arbiterAutodetect /\ p.masterOnlyZones = {}
    /\ ~p.arbiterAutodetect => p.masterOnlyZones = {}
    /\ p.platform # "baremetal" => p.pvSizes = <<>>
    /\ ~p.localStorage => p.lsoType = "ebs" /\ ~p.i3 /\ p.lsoCount = 0
    /\ p.mcgOnly => ~p.arbiter /\ ~p.localStorage /\ ~p.lowerReq
                    /\ ~p.encryption /\ ~p.cephDebug /\ ~p.kms

\* The plans over the given disable lists, ceph debug flags and PV lists.
PlanSpace(disabled, debug, pvs, platforms) ==
    {p \in [ocs : {5, 7, 10}, platform : platforms,
            arbiter : BOOLEAN, arbiterAutodetect : BOOLEAN,
            arbiterZone : {"z3"}, masterOnlyZones : {{}, {"z1", "z3"}},
            localStorage : BOOLEAN, zones : {1, 3}, csvChange : {FALSE},
            customSc : {FALSE}, rookLog : {FALSE}, kms : BOOLEAN,
            mcgOnly : BOOLEAN, cliDisabled : disabled,
            cfgDisabled : disabled, lowerReq : BOOLEAN,
            encryption : BOOLEAN, cephDebug : debug, infraNodes : {TRUE},
            lsoType : {"ebs", "gp2"}, i3 : BOOLEAN, lsoCount : {0, 4},
            deviceSize : {512}, pvSizes : pvs, platformSc : {TRUE}] :
        Canonical(p)}

MCPlans ==
    PlanSpace({{}}, {FALSE}, MCPvLists, {"aws", "baremetal", "ibmcloud"})

\* For the disable map: components disabled both ways, and ceph debug.
MCComponentPlans ==
    {p \in PlanSpace({{}, {"cephfs"}, {"noobaa"}}, BOOLEAN, {<<>>}, {"aws"}) :
        ~p.arbiter /\ ~p.localStorage /\ ~p.lowerReq /\ ~p.encryption}
====
