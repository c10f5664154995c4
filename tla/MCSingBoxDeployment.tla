------------------------- MODULE MCSingBoxDeployment -------------------------
(* SingBoxDeployment with its constants given by the configuration.        *)
EXTENDS SingBoxDeployment
=============================================================================
