-------------------------- MODULE MCCatalogSource --------------------------
(* Image strings as their ":"-separated parts: a quay.io image with and   *)
(* without a tag, a mirror registry with a port, with and without a tag,  *)
(* and the empty string.                                                   *)
EXTENDS CatalogSource

MCImageArgs == {<<"">>, <<"quay.io/ocs-dev", "4.10">>}
MCRegistryImages ==
    {<<"">>, <<"quay.io/ocs-registry">>, <<"quay.io/ocs-registry", "4.10">>,
     <<"mirror.local", "5000/ocs-registry">>,
     <<"mirror.local", "5000/ocs-registry", "4.10">>}
MCStageIndexImage == <<"quay.io/osbs-index">>
MCStageTag == "v4.10"
MCDefaultImage == <<"quay.io/ocs-registry", "latest">>
MCTemplateImage == <<"quay.io/template-index", "latest">>
MCLatestTag == "4.10.0-113"
MCHasSlash(p) ==
    p \in {"quay.io/ocs-dev", "quay.io/ocs-registry", "5000/ocs-registry",
           "quay.io/osbs-index", "quay.io/template-index"}
MCMaxPolls == 1
=============================================================================
