------------------------- MODULE MCOperatorInstall -------------------------
(* TLC instance of OperatorInstall: the four operators of the bundle are   *)
(* model values; each poll tolerates one miss before its timeout, enough   *)
(* for OLM to act between two samples of the same wait.                    *)
EXTENDS OperatorInstall

CONSTANTS odf, ocs, mcg, csiaddons

MCMaxPolls == 1
=============================================================================
