---------------------------- MODULE MCRoundRobin ----------------------------
(* Small instances of RoundRobin for TLC: the constants are in the cfgs.    *)
EXTENDS RoundRobin
=============================================================================
