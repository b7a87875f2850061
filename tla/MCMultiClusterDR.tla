-------------------------- MODULE MCMultiClusterDR --------------------------
(* A hub (index 0) and two managed clusters.  Cluster 1 is named "east",   *)
(* cluster 2 "east2": the profile "s3profile-east" names cluster 1 only,   *)
(* "s3profile-east2" names both (the deploy_dr_policy substring test).     *)
(* The hub config map lists the two profiles in either order, or only the *)
(* first one.                                                              *)
EXTENDS MultiClusterDR

MCNClusters == 3
MCHub == 0
MCProfileLists ==
    {<<"s3profile-east", "s3profile-east2">>,
     <<"s3profile-east2", "s3profile-east">>,
     <<"s3profile-east">>}
MCNameIn(c, p) ==
    <<c, p>> \in {<<1, "s3profile-east">>, <<1, "s3profile-east2">>,
                  <<2, "s3profile-east2">>}
MCSidecarTries == 2
MCMaxPolls == 1
=============================================================================
