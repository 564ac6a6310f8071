-------------------------- MODULE MCGatewayRuntime --------------------------
(***************************************************************************)
(* GatewayRuntime for TLC.                                                 *)
(***************************************************************************)
EXTENDS GatewayRuntime

MCSizeClasses == <<1, 2>>
=============================================================================
