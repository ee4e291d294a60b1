---------------------------- MODULE MCCaseLedger ----------------------------
(* A small instance of CaseLedger for TLC. *)
EXTENDS CaseLedger

CONSTANTS w1, w2, r1
=============================================================================
