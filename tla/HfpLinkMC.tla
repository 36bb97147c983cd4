----------------------------- MODULE HfpLinkMC -----------------------------
(***************************************************************************)
(* An instance of HfpLink for TLC: two audio gateways, one of which calls  *)
(* the service of HFP and the other that of HSP; the client connects to    *)
(* the first one as well.                                                  *)
(***************************************************************************)
EXTENDS HfpLinkProperties

CONSTANTS ag1, ag2

MCCalls == {<<ag1, 1>>, <<ag2, 2>>} \cap (Device \X Service)

============================================================================
