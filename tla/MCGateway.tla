----------------------------- MODULE MCGateway ------------------------------
(* Gateway for TLC: the values of the constants are in the .cfg files.     *)
EXTENDS Gateway
=============================================================================
