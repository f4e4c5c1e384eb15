----------------------------- MODULE MCHostDriver -----------------------------
(* An instance of the driver for TLC: two registers of one bit, results of *)
(* two halves of one bit, two programs of two instructions.                *)
EXTENDS HostDriver
=============================================================================
