-------------------------- MODULE MC_FlowEndpoint --------------------------
(***************************************************************************)
(* A small instance of FlowEndpoint: three runs of the command, so that a  *)
(* key can be lost between two that fail, and one request, which may be    *)
(* encrypted with any key that was ever registered.  Requests share        *)
(* nothing but the keys.                                                   *)
(***************************************************************************)
EXTENDS FlowEndpoint

CONSTANTS f1, k1, k2, k3
=============================================================================
