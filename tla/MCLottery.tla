------------------------------ MODULE MCLottery ------------------------------
(* Small instances of Lottery for TLC: the constants are in the cfgs.       *)
EXTENDS Lottery
=============================================================================
