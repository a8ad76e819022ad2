------------------------------ MODULE MCClients ------------------------------
(***************************************************************************)
(* Clients on small instances, for TLC; no symmetry, because of the        *)
(* liveness properties.                                                    *)
(***************************************************************************)
EXTENDS Clients
==============================================================================
