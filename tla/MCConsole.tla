----------------------------- MODULE MCConsole ------------------------------
(* An instance of Console for TLC: the pages of one of two instances.      *)
EXTENDS Console, TLC
=============================================================================
