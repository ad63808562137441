------------------------------ MODULE MCStartup ------------------------------
(* Up to three API processes for TLC.                                      *)
EXTENDS Startup

CONSTANTS w1, w2, w3
=============================================================================
